---- MODULE Spec2Model ----
(***************************************************************************)
(* Global-recording session machinery of the speech-to-text desktop app:   *)
(*   - GlobalHotkeyService      (electron/services/globalHotkeys.ts)       *)
(*   - StreamingSTTService      (electron/services/streamingSTT.ts)        *)
(*   - GlobalRecordingManager   (electron/services/globalRecordingManager) *)
(* Strings are sequences of tokens.  For transcripts and credentials the   *)
(* tokens are naturals: 0 is a whitespace character, n > 0 is a word that  *)
(* stems from session n.  Accelerators are sequences of key names.         *)
(***************************************************************************)
EXTENDS Integers, Sequences, FiniteSets, TLC

\* ---------------------------------------------------------------- bounds
MaxPresses == 4      \* hotkey presses followed since the last forceStop
MaxCalls == 5        \* start / sendAudio / stop calls on the engine in one behaviour
MaxIpcCalls == 4     \* of these, calls made through the streaming IPC handlers
MaxSockets == 2      \* cloud sockets created in one behaviour
MaxMessages == 2     \* cloud messages with a transcript in one behaviour

\* ------------------------------------------------------- hotkey service
VARIABLES
    currentHotkey,     \* GlobalHotkeyService.currentHotkey (NoHotkey = null)
    osRegistered,      \* accelerators this app holds in globalShortcut
    isRecording,       \* GlobalHotkeyService.isRecording
    recordingStartTime,\* TRUE when recordingStartTime is a number, FALSE when null
    durationInterval,  \* TRUE when durationInterval holds a timer handle
    intervals,         \* number of setInterval timers set and not cleared
    overlayVisible,    \* overlay window shown
    overlayWindow,     \* overlayWindow && !overlayWindow.isDestroyed()
    hotkeyServiceInstance, \* TRUE while hotkeyServiceInstance holds the service
    windowDestroyed,   \* mainWindow.isDestroyed()
    hotkeySetting,     \* the "hotkey" entry of the settings store
    presses,           \* presses since construction or the last forceStop
    hkLast,            \* the last hotkey-service call and what it did
    pressSent          \* what the last two presses sent: <<previous, last>>

\* ------------------------------------------------ streaming STT engine
VARIABLES
    ws,                \* StreamingSTTService.ws: socket id, 0 = null
    sockets,           \* every socket created so far, with its start() closure
    apiKey,            \* StreamingSTTService.apiKey (NoKey = null)
    fullTranscript,    \* StreamingSTTService.fullTranscript
    isConnected,       \* StreamingSTTService.isConnected
    mode,              \* StreamingSTTService.mode
    audioChunks,       \* StreamingSTTService.audioChunks
    whisperProcessing, \* StreamingSTTService.whisperProcessing
    passes,            \* transcribeAudio calls in flight
    session,           \* number of Engine.start calls so far
    framesSent,        \* number of sendAudio calls so far
    calls,             \* number of calls made on the engine so far
    messagesSent,      \* number of transcript messages received so far
    finished,          \* highest session a returned Engine.stop has ended
    finals,            \* final cloud transcripts handled since the last start()
    sinceStart,        \* the session in progress: its start() call, the mode it
                       \* reported, the frames sent if it started without credential
    proto,             \* where a caller that awaits each call stands
    audioSince,        \* sendAudio was called since the last Engine.start call
    sent,              \* the error raised in this step and the channel it went out on
    startRet,          \* what the Engine.start call that returned in this step reported
    stopRet            \* what the Engine.stop call that returned in this step reported

\* ------------------------------------------------ recording coordinator
VARIABLES
    isActive,          \* GlobalRecordingManager.isActive
    streamingService,  \* TRUE once GlobalRecordingManager.streamingService is set
    race,              \* "stopDuringStart" once stopRecording ran while the
                       \* startRecording before it was suspended in Engine.start
    coLast             \* the coordinator call made or returning in this step

\* ------------------------------------------------- text injection
VARIABLES
    isMac,             \* process.platform === "darwin"
    clipboard,         \* the system clipboard's text
    inj,               \* the injectText call in progress and who made it
    inj2,              \* an injectText call made while inj is in progress
    injLast            \* the injection request that returned in this step

\* --------------------------------- renderer: GlobalRecordingHandler
VARIABLES
    lastNotification,  \* the last 'global-recording-*' notification handled
    captures,          \* startAudioCapture() calls suspended at an await
    captureRefs,       \* processorRef, audioContextRef, streamRef: set or null
    liveCaptures,      \* capture graphs built and not torn down
    currentTranscriptRef, \* currentTranscriptRef.current
    refInterim,        \* currentTranscriptRef holds a non-final cloud result
    rLast              \* what the renderer did in this step

hkVars == <<currentHotkey, osRegistered, isRecording, recordingStartTime,
            durationInterval, intervals, overlayVisible, overlayWindow,
            hotkeyServiceInstance, windowDestroyed, hotkeySetting, presses,
            hkLast, pressSent>>
engVars == <<ws, sockets, apiKey, fullTranscript, isConnected, mode,
             audioChunks, whisperProcessing, passes, session, framesSent, calls,
             messagesSent, finished, finals, sinceStart,
             proto, audioSince, sent, startRet, stopRet>>
coVars == <<isActive, streamingService, race, coLast>>
injVars == <<isMac, clipboard, inj, inj2, injLast>>
\* the renderer's GlobalRecordingHandler component
rendVars == <<lastNotification, captures, captureRefs, liveCaptures,
              currentTranscriptRef, refInterim, rLast>>
vars == <<hkVars, engVars, coVars, injVars, rendVars>>

\* ============================================================ strings
RECURSIVE TrimLeft(_, _)
TrimLeft(s, sp) ==
    IF s # <<>> /\ Head(s) = sp THEN TrimLeft(Tail(s), sp) ELSE s

RECURSIVE TrimRight(_, _)
TrimRight(s, sp) ==
    IF s # <<>> /\ s[Len(s)] = sp THEN TrimRight(SubSeq(s, 1, Len(s) - 1), sp) ELSE s

\* String.prototype.trim
Trim(s, sp) == TrimRight(TrimLeft(s, sp), sp)

\* ===================================================== hotkey service
NoHotkey == <<>>

\* accelerator strings offered to register()
Accelerators ==
    { <<"Control", "A">>, <<"CommandOrControl", "Shift", "Space">>,
      <<"A">>, <<"F5">>, <<" ">>, <<>> }

\* the "hotkey" entry of the default settings
DefaultHotkey == <<"CommandOrControl", "Shift", "Space">>

\* String.prototype.includes, on one key name
NameIncludes(name, part) ==
    \/ name = part
    \/ name = "CommandOrControl" /\ part \in {"Command", "Control"}

Includes(accelerator, part) ==
    \E i \in 1..Len(accelerator) : NameIncludes(accelerator[i], part)

hasModifier(accelerator) ==
    \/ Includes(accelerator, "Command")
    \/ Includes(accelerator, "Control")
    \/ Includes(accelerator, "Alt")
    \/ Includes(accelerator, "Shift")
    \/ Includes(accelerator, "Super")
    \/ Includes(accelerator, "CommandOrControl")

isValidAccelerator(accelerator) ==
    IF accelerator = <<>> \/ Len(Trim(accelerator, " ")) = 0
    THEN FALSE
    ELSE hasModifier(accelerator)

\* state of currentHotkey / osRegistered after unregister()
unregisterHotkey(cur) == IF cur # NoHotkey THEN NoHotkey ELSE cur
unregisterOs(cur, os) == IF cur # NoHotkey THEN os \ {cur} ELSE os

\* register(accelerator); osOutcome is what globalShortcut.register does
register(accelerator, osOutcome) ==
    LET cur1 == unregisterHotkey(currentHotkey)
        os1 == unregisterOs(currentHotkey, osRegistered)
        valid == isValidAccelerator(accelerator)
        success == valid /\ osOutcome = "ok"
    IN  /\ currentHotkey' = IF success THEN accelerator ELSE cur1
        /\ osRegistered' = IF success THEN os1 \cup {accelerator} ELSE os1
        /\ hkLast' = [op |-> "register", acc |-> accelerator, ret |-> success,
                      threw |-> FALSE,
                      osOutcome |-> IF valid THEN osOutcome ELSE "notCalled",
                      prevHotkey |-> currentHotkey, prevOs |-> osRegistered]

Register ==
    \E accelerator \in Accelerators, osOutcome \in {"ok", "conflict", "throw"} :
        /\ hotkeyServiceInstance
        /\ register(accelerator, osOutcome)
        /\ UNCHANGED <<isRecording, recordingStartTime, durationInterval, intervals,
                       overlayVisible, overlayWindow, hotkeyServiceInstance,
                       windowDestroyed, hotkeySetting, presses, pressSent>>
        /\ UNCHANGED <<engVars, coVars, injVars, rendVars>>

\* ipcMain.handle("register-global-hotkey"): a blank accelerator is refused
\* before the service is called; the setting is written when register()
\* returned true
RegisterGlobalHotkey ==
    \E accelerator \in Accelerators, osOutcome \in {"ok", "conflict", "throw"} :
        /\ hotkeyServiceInstance
        /\ IF accelerator = <<>> \/ Len(Trim(accelerator, " ")) = 0
           THEN /\ osOutcome = "ok"
                /\ hkLast' = [op |-> "register", acc |-> accelerator,
                              ret |-> FALSE, threw |-> FALSE,
                              osOutcome |-> "notCalled",
                              prevHotkey |-> currentHotkey,
                              prevOs |-> osRegistered]
                /\ UNCHANGED <<currentHotkey, osRegistered, hotkeySetting>>
           ELSE /\ register(accelerator, osOutcome)
                /\ hotkeySetting' = IF hkLast'.ret THEN accelerator
                                    ELSE hotkeySetting
        /\ UNCHANGED <<isRecording, recordingStartTime, durationInterval, intervals,
                       overlayVisible, overlayWindow, hotkeyServiceInstance,
                       windowDestroyed, presses, pressSent>>
        /\ UNCHANGED <<engVars, coVars, injVars, rendVars>>

\* an unregister() that calls globalShortcut.unregister whether or not an
\* accelerator is held (sensitivity variant for C27_UnregisterIdempotent)
UnregisterUnguarded ==
    /\ hotkeyServiceInstance
    /\ currentHotkey' = NoHotkey
    /\ osRegistered' = osRegistered \ {currentHotkey}
    /\ hkLast' = [op |-> "unregister", osCall |-> TRUE,
                  prevHotkey |-> currentHotkey, prevOs |-> osRegistered]
    /\ UNCHANGED <<isRecording, recordingStartTime, durationInterval, intervals,
                   overlayVisible, overlayWindow, hotkeyServiceInstance,
                   windowDestroyed, hotkeySetting, presses, pressSent>>
    /\ UNCHANGED <<engVars, coVars, injVars, rendVars>>

Unregister ==
    /\ hotkeyServiceInstance
    /\ currentHotkey' = unregisterHotkey(currentHotkey)
    /\ osRegistered' = unregisterOs(currentHotkey, osRegistered)
    /\ hkLast' = [op |-> "unregister", osCall |-> currentHotkey # NoHotkey,
                  prevHotkey |-> currentHotkey, prevOs |-> osRegistered]
    /\ UNCHANGED <<isRecording, recordingStartTime, durationInterval, intervals,
                   overlayVisible, overlayWindow, hotkeyServiceInstance,
                   windowDestroyed, hotkeySetting, presses, pressSent>>
    /\ UNCHANGED <<engVars, coVars, injVars, rendVars>>

\* what webContents.send delivers from startRecording / stopRecording
sendToWindow(channel) == IF windowDestroyed THEN "none" ELSE channel

\* a stopDurationCounter() that drops the handle without clearing the timer
\* (sensitivity variant for C33_OneTimerIffRecording)
stopDurationCounterLeaks == intervals

\* stopDurationCounter(): the number of live timers after the call
stopDurationCounter == IF durationInterval THEN intervals - 1 ELSE intervals

\* showOverlay() / hideOverlay(): the overlay's visibility after the call
showOverlay == IF overlayWindow THEN TRUE ELSE overlayVisible
hideOverlay == IF overlayWindow THEN FALSE ELSE overlayVisible

\* updateOverlayState({ isRecording: true, ... }): what reaches the overlay
updateOverlayState == IF overlayWindow THEN "recording" ELSE "none"

\* a toggleRecording that sets the flag instead of flipping it: every press
\* starts a recording (sensitivity variant for C1_FlagAlternates)
toggleRecordingNoFlip ==
    /\ isRecording' = TRUE
    /\ recordingStartTime' = TRUE
    /\ overlayVisible' = showOverlay
    /\ durationInterval' = TRUE
    /\ intervals' = intervals + 1
    /\ hkLast' = [op |-> "press", k |-> presses + 1,
                  destroyed |-> windowDestroyed,
                  sent |-> sendToWindow("global-recording-started"),
                  overlay |-> updateOverlayState]
    /\ presses' = presses + 1
    /\ pressSent' = <<pressSent[2], hkLast'.sent>>

\* toggleRecording, run by the OS callback of the registered accelerator
toggleRecording ==
    /\ isRecording' = ~isRecording
    /\ IF isRecording'
       THEN \* startRecording
            /\ recordingStartTime' = TRUE
            /\ overlayVisible' = showOverlay
            /\ durationInterval' = TRUE
            /\ intervals' = intervals + 1
            /\ hkLast' = [op |-> "press", k |-> presses + 1,
                          destroyed |-> windowDestroyed,
                          sent |-> sendToWindow("global-recording-started"),
                          overlay |-> updateOverlayState]
       ELSE \* stopRecording
            /\ durationInterval' = FALSE
            /\ intervals' = stopDurationCounter
            /\ overlayVisible' = hideOverlay
            /\ recordingStartTime' = FALSE
            /\ hkLast' = [op |-> "press", k |-> presses + 1,
                          destroyed |-> windowDestroyed,
                          sent |-> sendToWindow("global-recording-stopped"),
                          overlay |-> "none"]
    /\ presses' = presses + 1
    /\ pressSent' = <<pressSent[2], hkLast'.sent>>

Press ==
    /\ currentHotkey # NoHotkey
    /\ currentHotkey \in osRegistered
    /\ presses < MaxPresses
    /\ toggleRecording
    /\ UNCHANGED <<currentHotkey, osRegistered, windowDestroyed, hotkeySetting,
                   overlayWindow,
                   hotkeyServiceInstance>>
    /\ UNCHANGED <<engVars, coVars, injVars, rendVars>>

\* a forceStop() that leaves the overlay shown (sensitivity variant for
\* C24_OverlayVisibleIffRecording)
forceStopNoHide ==
    /\ isRecording' = FALSE
    /\ durationInterval' = FALSE
    /\ intervals' = stopDurationCounter
    /\ recordingStartTime' = FALSE
    /\ UNCHANGED overlayVisible
    /\ hkLast' = [op |-> "forceStop", sent |-> "none", overlay |-> "none",
                  wasRecording |-> isRecording]
    /\ presses' = 0
    /\ pressSent' = <<"none", "none">>

\* a forceStop() that goes through stopRecording() and so notifies the
\* renderer (sensitivity variant for C25_ForceStopLeavesIdle)
forceStopViaStopRecording ==
    /\ isRecording' = FALSE
    /\ durationInterval' = FALSE
    /\ intervals' = stopDurationCounter
    /\ overlayVisible' = hideOverlay
    /\ recordingStartTime' = FALSE
    /\ hkLast' = [op |-> "forceStop",
                  sent |-> IF isRecording
                           THEN sendToWindow("global-recording-stopped")
                           ELSE "none",
                  overlay |-> "none", wasRecording |-> isRecording]
    /\ presses' = 0
    /\ pressSent' = <<"none", "none">>

forceStop ==
    /\ IF isRecording
       THEN /\ isRecording' = FALSE
            /\ durationInterval' = FALSE
            /\ intervals' = stopDurationCounter
            /\ overlayVisible' = hideOverlay
            /\ recordingStartTime' = FALSE
       ELSE UNCHANGED <<isRecording, durationInterval, intervals, overlayVisible,
                        recordingStartTime>>
    /\ hkLast' = [op |-> "forceStop", sent |-> "none", overlay |-> "none",
                  wasRecording |-> isRecording]
    /\ presses' = 0
    /\ pressSent' = <<"none", "none">>

ForceStop ==
    /\ hotkeyServiceInstance
    /\ forceStop
    /\ UNCHANGED <<currentHotkey, osRegistered, windowDestroyed, hotkeySetting,
                   overlayWindow,
                   hotkeyServiceInstance>>
    /\ UNCHANGED <<engVars, coVars, injVars, rendVars>>

\* the main window is closed while the service lives on
WindowClosed ==
    /\ ~windowDestroyed
    /\ windowDestroyed' = TRUE
    /\ UNCHANGED hotkeySetting
    /\ hkLast' = [op |-> "windowClosed"]
    /\ UNCHANGED <<currentHotkey, osRegistered, isRecording, recordingStartTime,
                   durationInterval, intervals, overlayVisible, overlayWindow,
                   hotkeyServiceInstance, presses, pressSent>>
    /\ UNCHANGED <<engVars, coVars, injVars, rendVars>>

\* an updateTranscriptPreview() without its "not recording" early return
\* (sensitivity variant for C23_NoOverlayUpdateWhileIdle)
UpdateTranscriptPreviewUnguarded ==
    /\ hotkeyServiceInstance
    /\ hkLast' = [op |-> "preview", overlay |-> updateOverlayState]
    /\ UNCHANGED <<currentHotkey, osRegistered, isRecording, recordingStartTime,
                   durationInterval, intervals, overlayVisible, overlayWindow,
                   hotkeyServiceInstance, windowDestroyed, hotkeySetting, presses,
                   pressSent>>
    /\ UNCHANGED <<engVars, coVars, injVars, rendVars>>

\* updateTranscriptPreview(text), run by the "update-overlay-transcript" handler
UpdateTranscriptPreview ==
    /\ hotkeyServiceInstance
    /\ hkLast' = [op |-> "preview",
                  overlay |-> IF ~isRecording THEN "none" ELSE updateOverlayState]
    /\ UNCHANGED <<currentHotkey, osRegistered, isRecording, recordingStartTime,
                   durationInterval, intervals, overlayVisible, overlayWindow,
                   hotkeyServiceInstance, windowDestroyed, hotkeySetting, presses,
                   pressSent>>
    /\ UNCHANGED <<engVars, coVars, injVars, rendVars>>

\* the setInterval callback of startDurationCounter(): updateDuration()
DurationTick ==
    /\ intervals > 0
    /\ hkLast' = [op |-> "tick",
                  overlay |-> IF ~recordingStartTime THEN "none"
                              ELSE updateOverlayState]
    /\ UNCHANGED <<currentHotkey, osRegistered, isRecording, recordingStartTime,
                   durationInterval, intervals, overlayVisible, overlayWindow,
                   hotkeyServiceInstance, windowDestroyed, hotkeySetting, presses,
                   pressSent>>
    /\ UNCHANGED <<engVars, coVars, injVars, rendVars>>

\* let isQuitting of main.ts: set by the first "before-quit" event
isQuitting == ~hotkeyServiceInstance

\* app.on("before-quit"): destroyOverlay(), then destroyGlobalHotkeyService()
\* with its cleanup(): forceStop() and unregister()
BeforeQuit ==
    /\ ~isQuitting
    /\ overlayWindow' = FALSE
    /\ overlayVisible' = FALSE
    /\ IF isRecording
       THEN /\ isRecording' = FALSE
            /\ durationInterval' = FALSE
            /\ intervals' = stopDurationCounter
            /\ recordingStartTime' = FALSE
       ELSE UNCHANGED <<isRecording, durationInterval, intervals, recordingStartTime>>
    /\ presses' = 0
    /\ pressSent' = <<"none", "none">>
    /\ currentHotkey' = unregisterHotkey(currentHotkey)
    /\ osRegistered' = unregisterOs(currentHotkey, osRegistered)
    /\ hotkeyServiceInstance' = FALSE
    /\ hkLast' = [op |-> "before-quit", sent |-> "none", overlay |-> "none",
                  wasRecording |-> isRecording, passes |-> passes,
                  calls |-> calls]
    /\ UNCHANGED <<windowDestroyed, hotkeySetting>>
    /\ UNCHANGED <<engVars, coVars, injVars, rendVars>>

HotkeyInit ==
    /\ currentHotkey = NoHotkey
    /\ osRegistered = {}
    /\ isRecording = FALSE
    /\ recordingStartTime = FALSE
    /\ durationInterval = FALSE
    /\ intervals = 0
    /\ overlayVisible = FALSE
    /\ overlayWindow = TRUE
    /\ hotkeyServiceInstance = TRUE
    /\ windowDestroyed = FALSE
    /\ hotkeySetting = DefaultHotkey
    /\ presses = 0
    /\ hkLast = [op |-> "init"]
    /\ pressSent = <<"none", "none">>


\* ================================================ streaming STT engine
NoKey == <<-1>>             \* apiKey undefined / null
SampleRate == 16000
FiveSeconds == SampleRate * 5

\* credentials offered to start(): undefined, "", " ", a key
Credentials == {NoKey, <<>>, <<0>>, <<1>>}

\* lengths (in samples) of the frames offered to sendAudio()
FrameLengths == {FiveSeconds \div 4, FiveSeconds}

SocketIds == 1..MaxSockets

NoSocket == [state |-> "NONE", timer |-> "none", resolved |-> TRUE,
             sess |-> 0, audio |-> FALSE]

\* words of a transcript: the word heard in frame id of session sess; id 0 is a
\* word of a cloud message of that session
WordBase == MaxCalls + 1
Word(sess, id) == sess * WordBase + id
SessionOf(word) == word \div WordBase

\* no session in progress: before the first start() and after a stop() call
NoSession == [id |-> 0, local |-> FALSE, reported |-> "none", frames |-> <<>>]

NoSent == [cause |-> "none", channel |-> "none"]
NoStartRet == [mode |-> "none"]
NoStopRet == [kind |-> "none"]

\* the engine object's fields, with the calls in flight
Engine ==
    [ws |-> ws, sockets |-> sockets, apiKey |-> apiKey,
     fullTranscript |-> fullTranscript, isConnected |-> isConnected,
     mode |-> mode, audioChunks |-> audioChunks,
     whisperProcessing |-> whisperProcessing, passes |-> passes,
     finished |-> finished, finals |-> finals,
     sinceStart |-> sinceStart, sent |-> NoSent,
     startRet |-> NoStartRet, stopRet |-> NoStopRet]

SetEngine(e) ==
    /\ ws' = e.ws
    /\ sockets' = e.sockets
    /\ apiKey' = e.apiKey
    /\ fullTranscript' = e.fullTranscript
    /\ isConnected' = e.isConnected
    /\ mode' = e.mode
    /\ audioChunks' = e.audioChunks
    /\ whisperProcessing' = e.whisperProcessing
    /\ passes' = e.passes
    /\ finished' = e.finished
    /\ finals' = e.finals
    /\ sinceStart' = e.sinceStart
    /\ sent' = e.sent
    /\ startRet' = e.startRet
    /\ stopRet' = e.stopRet

\* sendError(error): the channel the message goes out on
sendError == IF windowDestroyed THEN "none" ELSE "streaming-error"

\* apiKey && apiKey.trim().length > 0
hasCredential(key) == key # NoKey /\ key # <<>> /\ Len(Trim(key, 0)) > 0

startWhisperMode(e) == [e EXCEPT !.mode = "whisper", !.audioChunks = <<>>]

\* start() returns { success: true, mode }; i is the socket of its attempt
startReturns(e, i, reported, key) ==
    [e EXCEPT !.startRet =
        [success |-> TRUE, mode |-> reported, engineMode |-> e.mode,
         credential |-> hasCredential(key), sock |-> i,
         sockState |-> IF i = 0 THEN "NONE" ELSE e.sockets[i].state,
         timedOut |-> IF i = 0 THEN FALSE ELSE e.sockets[i].timer = "fired"],
              !.sinceStart.reported =
                  IF i = 0 \/ e.sockets[i].sess = e.sinceStart.id THEN reported ELSE @]

\* the rest of start() once startDeepgram()'s promise has settled
startResume(e, i, success, key) ==
    IF success
    THEN startReturns(e, i, "deepgram", key)
    ELSE startReturns(startWhisperMode(e), i, "whisper", key)

\* resolve(...) of the promise made for socket i; settles it at most once
resolve(e, i, success) ==
    IF e.sockets[i].resolved
    THEN e
    ELSE LET e1 == startResume(e, i, success, e.apiKey)
         IN  [e1 EXCEPT !.sockets[i].resolved = TRUE,
                        !.sockets[i].timer = IF @ = "armed" THEN @ ELSE "none"]

\* WebSocket.close() on socket i
closeSocket(e, i) ==
    IF e.sockets[i].state = "CONNECTING"
    THEN [e EXCEPT !.sockets[i].state = "ABORTED"]
    ELSE IF e.sockets[i].state = "OPEN"
    THEN [e EXCEPT !.sockets[i].state = "CLOSING"]
    ELSE e

FreeSocket == CHOOSE i \in SocketIds :
    /\ sockets[i].state = "NONE"
    /\ \A j \in SocketIds : j < i => sockets[j].state # "NONE"

\* startDeepgram(): the promise executor; created = FALSE when new WebSocket throws
startDeepgram(e, created, sess) ==
    IF created
    THEN [e EXCEPT !.ws = FreeSocket,
                   !.sockets[FreeSocket] =
                       [state |-> "CONNECTING", timer |-> "armed",
                        resolved |-> FALSE, sess |-> sess, audio |-> FALSE]]
    ELSE startResume(e, 0, FALSE, e.apiKey)

\* start(apiKey)
start(e, key, created, sess) ==
    LET e0 == [e EXCEPT !.finals = <<>>,
                        !.sinceStart = [id |-> sess, local |-> ~hasCredential(key),
                                        reported |-> "none", frames |-> <<>>]]
    IN  IF hasCredential(key)
        THEN startDeepgram([e0 EXCEPT !.apiKey = key], created, sess)
        ELSE startReturns(startWhisperMode(e0), 0, "whisper", key)

\* ws.on("open") of socket i
onOpen(e, i) ==
    LET e1 == [e EXCEPT !.sockets[i].state = "OPEN",
                        !.sockets[i].timer = IF @ = "armed" THEN "none" ELSE @,
                        !.isConnected = TRUE,
                        !.mode = "deepgram"]
    IN  resolve(e1, i, TRUE)

\* setTimeout callback of the attempt that made socket i
onTimeout(e, i) ==
    LET e1 == [e EXCEPT !.sockets[i].timer =
                            IF e.sockets[i].resolved THEN "none" ELSE "fired"]
    IN  IF ~e1.isConnected
        THEN resolve(IF e1.ws # 0 THEN closeSocket(e1, e1.ws) ELSE e1, i, FALSE)
        ELSE e1

\* an error handler that gives the session up: it falls back to local mode and
\* drops the transcript (sensitivity variant for C30_SocketErrorReportedToWindow)
onErrorEndsSession(e, i) ==
    [e EXCEPT !.sockets[i] = [NoSocket EXCEPT !.state = "DYING",
                                              !.resolved = TRUE],
              !.mode = "whisper",
              !.fullTranscript = <<>>,
              !.sent = [cause |-> "socket", channel |-> sendError]]

\* ws.on("error") of socket i
onError(e, i) ==
    LET e1 == [e EXCEPT !.sockets[i] = [NoSocket EXCEPT !.state = "DYING",
                                                     !.resolved = e.sockets[i].resolved,
                                                     !.sess = e.sockets[i].sess]]
        e2 == IF ~e1.isConnected THEN resolve(e1, i, FALSE) ELSE e1
    IN  [e2 EXCEPT !.sockets[i].sess = 0,
                   !.sent = [cause |-> "socket", channel |-> sendError]]

\* ws.on("close") of socket i
onClose(e, i) ==
    [e EXCEPT !.sockets[i] = [NoSocket EXCEPT !.state = "CLOSED",
                                              !.resolved = e.sockets[i].resolved],
              !.isConnected = FALSE,
              !.ws = 0]

\* handleDeepgramMessage(response)
handleDeepgramMessage(e, transcript, isFinal) ==
    IF transcript = <<>>
    THEN e
    ELSE IF isFinal
    THEN [e EXCEPT !.fullTranscript = @ \o transcript \o <<0>>,
                   !.finals = Append(@, transcript)]
    ELSE e

RECURSIVE totalSamples(_)
totalSamples(chunks) ==
    IF chunks = <<>> THEN 0 ELSE Head(chunks).len + totalSamples(Tail(chunks))

\* processWhisperChunk() up to its await; waiter is the stop() call awaiting it
processWhisperChunk(e, waiter) ==
    IF e.whisperProcessing \/ Len(e.audioChunks) = 0
    THEN e
    ELSE [e EXCEPT !.whisperProcessing = TRUE,
                   !.passes = Append(@, [audio |-> e.audioChunks, waiter |-> waiter]),
                   !.audioChunks = <<>>]

\* bufferAudioForWhisper(audioData)
bufferAudioForWhisper(e, frame) ==
    LET e1 == [e EXCEPT !.audioChunks = Append(@, frame)]
    IN  IF totalSamples(e1.audioChunks) >= FiveSeconds /\ ~e1.whisperProcessing
        THEN processWhisperChunk(e1, [kind |-> "none"])
        ELSE e1

\* sendAudioToDeepgram(audioData)
sendAudioToDeepgram(e, frame) ==
    IF e.ws = 0 \/ e.sockets[e.ws].state # "OPEN"
    THEN e
    ELSE [e EXCEPT !.sockets[e.ws].audio = TRUE]

\* sendAudio(audioData)
sendAudio(e, frame) ==
    LET e0 == [e EXCEPT !.sinceStart.frames =
                            IF e.sinceStart.local THEN Append(@, frame) ELSE @]
    IN  IF e0.mode = "deepgram"
        THEN sendAudioToDeepgram(e0, frame)
        ELSE bufferAudioForWhisper(e0, frame)

\* frames of session sess that no completed transcribeAudio call has consumed:
\* those still in the buffer and those of passes still in flight
untranscribed(e, sess) ==
    {e.audioChunks[k].id : k \in {j \in 1..Len(e.audioChunks) : e.audioChunks[j].sess = sess}}
    \cup UNION {{e.passes[p].audio[k].id :
                    k \in {j \in 1..Len(e.passes[p].audio) : e.passes[p].audio[j].sess = sess}} :
                p \in 1..Len(e.passes)}

\* the tail of stop(): take the transcript, reset the state, return
stopFinish(e, waiter) ==
    [e EXCEPT !.stopRet = [val |-> Trim(e.fullTranscript, 0), kind |-> waiter.kind,
                           finishedAtCall |-> waiter.finished,
                           roundTrip |-> waiter.roundTrip,
                           mode |-> e.mode,
                           finals |-> e.finals,
                           since |-> waiter.since, idle |-> waiter.idle,
                           ran |-> waiter.ran, text |-> waiter.text,
                           audio |-> waiter.audio,
                           lost |-> untranscribed(e, waiter.sess)],
              !.fullTranscript = <<>>,
              !.finals = <<>>,
              !.audioChunks = <<>>,
              !.isConnected = FALSE,
              !.whisperProcessing = FALSE,
              !.finished = IF waiter.sess > @ THEN waiter.sess ELSE @]

\* stop(), up to its return or its suspension in processWhisperChunk()
stop(e, waiter) ==
    LET e0 == [e EXCEPT !.sinceStart = NoSession]
        e1 == IF e0.ws # 0
              THEN [(IF e0.sockets[e0.ws].state = "OPEN" THEN closeSocket(e0, e0.ws) ELSE e0)
                       EXCEPT !.ws = 0]
              ELSE e0
    IN  IF e1.mode = "whisper" /\ Len(e1.audioChunks) > 0
        THEN IF e1.whisperProcessing
             THEN stopFinish(e1, waiter)
             ELSE processWhisperChunk(e1, waiter)
        ELSE stopFinish(e1, waiter)

\* what the stub transcribe() hears in the audio: one word per frame
RECURSIVE heard(_)
heard(audio) ==
    IF audio = <<>> THEN <<>>
    ELSE IF Len(audio) = 1 THEN <<Word(Head(audio).sess, Head(audio).id)>>
    ELSE <<Word(Head(audio).sess, Head(audio).id), 0>> \o heard(Tail(audio))

\* transcribeAudio(): { text: text.trim() }, or a thrown error
transcribeAudio(audio, outcome) ==
    IF outcome = "text" THEN Trim(heard(audio), 0) ELSE <<>>

\* a processWhisperChunk() that puts the audio of a failed pass back into the
\* buffer (sensitivity variant for C29_FailedPassReportedToWindow)
passResumeRetries(e, p, outcome) ==
    LET pass == e.passes[p]
        rest == [k \in 1..(Len(e.passes) - 1) |->
                    IF k < p THEN e.passes[k] ELSE e.passes[k + 1]]
    IN  [e EXCEPT !.passes = rest,
                  !.audioChunks = pass.audio \o @,
                  !.whisperProcessing = FALSE,
                  !.sent = IF outcome = "throw"
                           THEN [cause |-> "pass", channel |-> sendError]
                           ELSE @]

\* processWhisperChunk() after its await, for pass p
passResume(e, p, outcome) ==
    LET pass == e.passes[p]
        text == transcribeAudio(pass.audio, outcome)
        rest == [k \in 1..(Len(e.passes) - 1) |->
                    IF k < p THEN e.passes[k] ELSE e.passes[k + 1]]
        e1 == [e EXCEPT !.passes = rest]
        e2 == IF outcome # "throw" /\ text # <<>> /\ Len(Trim(text, 0)) > 0
              THEN [e1 EXCEPT !.fullTranscript = @ \o text \o <<0>>]
              ELSE e1
        e3 == [e2 EXCEPT !.whisperProcessing = FALSE,
                         !.sent = IF outcome = "throw"
                                  THEN [cause |-> "pass", channel |-> sendError]
                                  ELSE @]
    IN  IF pass.waiter.kind # "none"
        THEN stopFinish(e3, [pass.waiter EXCEPT !.ran = 1, !.text = text,
                                                !.audio = pass.audio])
        ELSE e3

\* ------------------------------------------- calls made on the engine
Pending(e) == {i \in SocketIds : ~e.sockets[i].resolved}
Waiting(e) == {p \in 1..Len(e.passes) : e.passes[p].waiter.kind # "none"}

\* Engine.start(key) is called
EngineStart(key, created) ==
    /\ calls < MaxCalls
    /\ (hasCredential(key) /\ created) => \E i \in SocketIds : sockets[i].state = "NONE"
    /\ ~hasCredential(key) => created
    /\ SetEngine(start(Engine, key, created, session + 1))
    /\ session' = session + 1
    /\ calls' = calls + 1
    /\ UNCHANGED <<framesSent, messagesSent>>

\* Engine.stop() is called by kind
EngineStop(kind, roundTrip) ==
    /\ calls < MaxCalls
    /\ calls' = calls + 1
    /\ SetEngine(stop(Engine, [kind |-> kind, finished |-> finished, sess |-> session,
                               roundTrip |-> roundTrip, since |-> sinceStart,
                               idle |-> passes = <<>>, ran |-> 0, text |-> <<>>,
                               audio |-> <<>>]))
    /\ UNCHANGED <<session, framesSent, messagesSent>>

\* Engine.sendAudio(frame) is called
EngineSendAudio(len) ==
    /\ calls < MaxCalls
    /\ calls' = calls + 1
    /\ SetEngine(sendAudio(Engine, [id |-> framesSent + 1, sess |-> session,
                                    len |-> len]))
    /\ framesSent' = framesSent + 1
    /\ UNCHANGED <<session, messagesSent>>

\* -------------------- events of the socket, the timer and the local model
\* the part of an event step that is the same for all of them; returned is the
\* kind of the stop() call the step lets return ("none": no stop() returns)
EventCore(e, returned) ==
    /\ SetEngine(e)
    /\ proto' = IF proto = "starting" /\ Pending(e) = {} THEN "running"
                ELSE IF proto = "stopping" /\ Waiting(e) = {} THEN "stopped"
                ELSE proto
    /\ isActive' = IF returned = "stopRecording" THEN FALSE ELSE isActive
    /\ coLast' = IF returned = "stopRecording"
                 THEN [op |-> "stopRecordingReturn", ret |-> e.stopRet.val]
                 ELSE [op |-> "event"]
    /\ UNCHANGED <<session, framesSent, calls, audioSince, hkVars, injVars, streamingService,
                   race>>

EventStep(e, returned) == EventCore(e, returned) /\ UNCHANGED rendVars

SocketOpen ==
    \E i \in SocketIds :
        /\ sockets[i].state = "CONNECTING"
        /\ EventStep(onOpen(Engine, i), "none")
        /\ UNCHANGED messagesSent

SocketError ==
    \E i \in SocketIds :
        /\ sockets[i].state \in {"CONNECTING", "ABORTED", "OPEN", "CLOSING"}
        /\ EventStep(onError(Engine, i), "none")
        /\ UNCHANGED messagesSent

SocketClose ==
    \E i \in SocketIds :
        /\ sockets[i].state \in {"DYING", "CLOSING", "OPEN"}
        /\ EventStep(onClose(Engine, i), "none")
        /\ UNCHANGED messagesSent

ConnectTimeout ==
    \E i \in SocketIds :
        /\ sockets[i].timer = "armed"
        /\ EventStep(onTimeout(Engine, i), "none")
        /\ UNCHANGED messagesSent

\* transcripts the backend sends on socket i
Transcripts(i) ==
    {<<>>, <<Word(sockets[i].sess, 0)>>, <<0, Word(sockets[i].sess, 0)>>}

SocketMessage ==
    \E i \in SocketIds, isFinal \in BOOLEAN :
        \E transcript \in Transcripts(i) :
            /\ sockets[i].state \in {"OPEN", "CLOSING"}
            /\ transcript # <<>> => sockets[i].audio /\ messagesSent < MaxMessages
            /\ EventStep(handleDeepgramMessage(Engine, transcript, isFinal), "none")
            /\ messagesSent' = IF transcript # <<>> THEN messagesSent + 1
                               ELSE messagesSent

PassComplete ==
    \E p \in 1..Len(passes), outcome \in {"text", "silence", "throw"} :
        /\ EventStep(passResume(Engine, p, outcome), passes[p].waiter.kind)
        /\ UNCHANGED messagesSent

Events ==
    \/ SocketOpen
    \/ SocketError
    \/ SocketClose
    \/ ConnectTimeout
    \/ SocketMessage
    \/ PassComplete

EngineInit ==
    /\ ws = 0
    /\ sockets = [i \in SocketIds |-> NoSocket]
    /\ apiKey = NoKey
    /\ fullTranscript = <<>>
    /\ isConnected = FALSE
    /\ mode = "whisper"
    /\ audioChunks = <<>>
    /\ whisperProcessing = FALSE
    /\ passes = <<>>
    /\ session = 0
    /\ framesSent = 0
    /\ calls = 0
    /\ messagesSent = 0
    /\ finished = 0
    /\ finals = <<>>
    /\ sinceStart = NoSession
    /\ sent = NoSent
    /\ proto = "stopped"
    /\ audioSince = FALSE
    /\ startRet = NoStartRet
    /\ stopRet = NoStopRet

\* ------------------ the engine behind the streaming IPC handlers (main.ts)
StartStreaming ==
    \E key \in Credentials, created \in BOOLEAN :
        /\ calls < MaxIpcCalls
        /\ EngineStart(key, created)
        /\ UNCHANGED <<proto, audioSince, hkVars, coVars, injVars, rendVars>>

StopStreaming ==
    /\ calls < MaxIpcCalls
    /\ EngineStop("ipc", FALSE)
    /\ UNCHANGED <<proto, audioSince, hkVars, coVars, injVars, rendVars>>

SendAudioChunkIpc ==
    \E len \in FrameLengths :
        /\ calls < MaxIpcCalls
        /\ EngineSendAudio(len)
        /\ UNCHANGED <<proto, audioSince, hkVars, coVars, injVars, rendVars>>

\* ----------- the same handlers under a caller that awaits each of its calls:
\* start, then frames, then stop, and no call before the last one returned
SessionStart ==
    \E key \in Credentials, created \in BOOLEAN :
        /\ proto = "stopped"
        /\ EngineStart(key, created)
        /\ proto' = IF hasCredential(key) /\ created THEN "starting" ELSE "running"
        /\ audioSince' = FALSE
        /\ UNCHANGED <<hkVars, coVars, injVars, rendVars>>

SessionSendAudio ==
    \E len \in FrameLengths :
        /\ proto = "running"
        /\ EngineSendAudio(len)
        /\ audioSince' = TRUE
        /\ UNCHANGED <<proto, hkVars, coVars, injVars, rendVars>>

SessionStop ==
    /\ proto = "running"
    /\ EngineStop("ipc", ~audioSince)
    /\ proto' = IF Len(passes') = Len(passes) THEN "stopped" ELSE "stopping"
    /\ UNCHANGED audioSince
    /\ UNCHANGED <<hkVars, coVars, injVars, rendVars>>

\* ================================================ recording coordinator
\* a startRecording without its "already active" early return (sensitivity
\* variant for C6_StartWhileActiveIsNoop)
StartRecordingUnguarded ==
    \E key \in Credentials, created \in BOOLEAN :
        /\ isActive' = TRUE
        /\ streamingService' = TRUE
        /\ EngineStart(key, created)
        /\ race' = "none"
        /\ coLast' = [op |-> "startRecording", engineCalled |-> TRUE,
                      threw |-> FALSE]
        /\ UNCHANGED <<proto, audioSince, hkVars, injVars, rendVars>>

StartRecording ==
    \E key \in Credentials, created \in BOOLEAN :
        IF isActive
        THEN /\ key = NoKey /\ created
             /\ coLast' = [op |-> "startRecording", engineCalled |-> FALSE,
                           threw |-> FALSE]
             /\ UNCHANGED <<isActive, streamingService, race, engVars, hkVars, injVars, rendVars>>
        ELSE /\ isActive' = TRUE
             /\ streamingService' = TRUE
             /\ EngineStart(key, created)
             /\ race' = "none"
             /\ coLast' = [op |-> "startRecording", engineCalled |-> TRUE,
                           threw |-> FALSE]
             /\ UNCHANGED <<proto, audioSince, hkVars, injVars, rendVars>>

\* a stopRecording without its "not active" early return (sensitivity variant
\* for C5_StopWhileInactiveIsNoop)
StopRecordingUnguarded ==
    /\ EngineStop("stopRecording", FALSE)
    /\ LET returned == Len(passes') = Len(passes)
       IN  /\ isActive' = IF returned THEN FALSE ELSE isActive
           /\ coLast' = [op |-> "stopRecording", engineCalled |-> TRUE,
                         returned |-> returned,
                         ret |-> IF returned THEN stopRet'.val ELSE <<>>]
    /\ race' = IF Pending(Engine) # {} THEN "stopDuringStart" ELSE race
    /\ UNCHANGED <<proto, audioSince, streamingService, hkVars, injVars, rendVars>>

StopRecording ==
    IF ~isActive
    THEN /\ coLast' = [op |-> "stopRecording", engineCalled |-> FALSE,
                       returned |-> TRUE, ret |-> <<>>]
         /\ UNCHANGED <<isActive, streamingService, race, engVars, hkVars, injVars, rendVars>>
    ELSE /\ EngineStop("stopRecording", FALSE)
         /\ LET returned == Len(passes') = Len(passes)
            IN  /\ isActive' = IF returned THEN FALSE ELSE isActive
                /\ coLast' = [op |-> "stopRecording", engineCalled |-> TRUE,
                              returned |-> returned,
                              ret |-> IF returned THEN stopRet'.val ELSE <<>>]
         /\ race' = IF Pending(Engine) # {} THEN "stopDuringStart" ELSE race
         /\ UNCHANGED <<proto, audioSince, streamingService, hkVars, injVars, rendVars>>

\* Engine.start() or Engine.stop() is called and throws before it has changed
\* anything
EngineThrows ==
    /\ calls < MaxCalls
    /\ calls' = calls + 1
    /\ SetEngine(Engine)
    /\ UNCHANGED <<session, framesSent, messagesSent, proto, audioSince>>

\* startRecording when a call inside its try block throws (service creation,
\* settings read or the engine's start): the catch logs and clears the flag
StartRecordingThrows ==
    /\ ~isActive
    /\ isActive' = FALSE
    /\ streamingService' = TRUE
    /\ coLast' = [op |-> "startRecording", engineCalled |-> TRUE,
                  threw |-> FALSE, caught |-> TRUE]
    /\ EngineThrows
    /\ UNCHANGED <<race, hkVars, injVars, rendVars>>

\* a stopRecording whose catch only logs and returns "" (sensitivity variant
\* for C34_EngineExceptionsCaught)
StopRecordingThrowsStuck ==
    /\ isActive
    /\ streamingService
    /\ UNCHANGED isActive
    /\ coLast' = [op |-> "stopRecording", engineCalled |-> TRUE,
                  returned |-> TRUE, ret |-> <<>>, caught |-> TRUE]
    /\ EngineThrows
    /\ UNCHANGED <<streamingService, race, hkVars, injVars, rendVars>>

\* stopRecording when the engine's stop() throws: the catch logs, clears the
\* flag and returns ""
StopRecordingThrows ==
    /\ isActive
    /\ streamingService
    /\ isActive' = FALSE
    /\ coLast' = [op |-> "stopRecording", engineCalled |-> TRUE,
                  returned |-> TRUE, ret |-> <<>>, caught |-> TRUE]
    /\ EngineThrows
    /\ UNCHANGED <<streamingService, race, hkVars, injVars, rendVars>>

\* a sendAudioChunk without its "service exists and active" test (sensitivity
\* variant for C17_FramesOnlyWhileActive)
SendAudioChunkUnguarded ==
    \E len \in FrameLengths :
        /\ EngineSendAudio(len)
        /\ coLast' = [op |-> "sendAudioChunk", engineCalled |-> TRUE]
        /\ UNCHANGED <<proto, audioSince, isActive, streamingService, race, hkVars, injVars, rendVars>>

SendAudioChunk ==
    \E len \in FrameLengths :
        IF streamingService /\ isActive
        THEN /\ EngineSendAudio(len)
             /\ coLast' = [op |-> "sendAudioChunk", engineCalled |-> TRUE]
             /\ UNCHANGED <<proto, audioSince, isActive, streamingService, race,
                            hkVars, injVars, rendVars>>
        ELSE /\ len = FiveSeconds
             /\ coLast' = [op |-> "sendAudioChunk", engineCalled |-> FALSE]
             /\ UNCHANGED <<isActive, streamingService, race, engVars, hkVars, injVars, rendVars>>

Cleanup ==
    /\ IF streamingService
       THEN EngineStop("cleanup", FALSE) /\ UNCHANGED <<proto, audioSince>>
       ELSE UNCHANGED engVars
    /\ isActive' = FALSE
    /\ coLast' = [op |-> "cleanup", engineCalled |-> streamingService]
    /\ UNCHANGED <<streamingService, race, hkVars, injVars, rendVars>>

CoordinatorInit ==
    /\ isActive = FALSE
    /\ streamingService = FALSE
    /\ race = "none"
    /\ coLast = [op |-> "init"]

\* ===================================================== text injection
NoText == <<-1>>            \* originalClipboard = null

\* texts offered for injection: "", " ", "a", "a "
InjectTexts == {<<>>, <<0>>, <<1>>, <<1, 0>>}

\* texts the clipboard holds from elsewhere: "", "b"
CopiedTexts == {<<>>, <<2>>}

\* a test that takes only the empty string for blank (sensitivity variant for
\* C22_BlankTextRejected)
blankOnlyEmpty(text) == text = <<>>

\* !text || text.trim().length === 0
blank(text) == text = <<>> \/ Len(Trim(text, 0)) = 0

NoInjection == [pc |-> "idle"]
NoOverlap == [pc |-> "idle"]
NoInjLast == [op |-> "none"]

\* copyToClipboard(text); writeOk = FALSE when clipboard.writeText throws
copyToClipboard(clip, text, writeOk) ==
    IF blank(text) THEN [clipboard |-> clip, threw |-> TRUE, steps |-> <<>>]
    ELSE IF writeOk THEN [clipboard |-> text, threw |-> FALSE, steps |-> <<"copy">>]
    ELSE [clipboard |-> clip, threw |-> TRUE, steps |-> <<"copy">>]

\* a continuation in which handleRecordingComplete has no clipboard fallback
\* (sensitivity variant for C18_FallbackCopiesTranscript)
injectReturnsNoFallback(clip, j, threw, copyOk) ==
    [clipboard |-> clip,
     inj |-> NoInjection,
     injLast |-> [op |-> j.caller, text |-> j.text, preserve |-> j.preserve,
                  atCall |-> j.atCall, original |-> j.original,
                  restored |-> j.restored, pasted |-> j.pasted,
                  readFailed |-> j.readFailed, restoreFailed |-> j.restoreFailed,
                  disturbed |-> j.disturbed, injectCalled |-> TRUE,
                  injectThrew |-> threw, copyCalled |-> FALSE,
                  copyThrew |-> FALSE, clipFault |-> j.clipFault,
                  threw |-> j.caller # "inject-text" /\ threw,
                  success |-> ~threw, steps |-> j.steps]]

\* the caller's continuation once injectText() has returned or thrown
injectReturns(clip, j, threw, copyOk) ==
    LET copy == copyToClipboard(clip, j.text, copyOk)
        fallback == j.caller = "handleRecordingComplete" /\ threw
    IN  [clipboard |-> IF fallback THEN copy.clipboard ELSE clip,
         inj |-> NoInjection,
         injLast |-> [op |-> j.caller, text |-> j.text, preserve |-> j.preserve,
                      atCall |-> j.atCall, original |-> j.original,
                      restored |-> j.restored, pasted |-> j.pasted,
                      readFailed |-> j.readFailed,
                      restoreFailed |-> j.restoreFailed,
                      disturbed |-> j.disturbed, injectCalled |-> TRUE,
                      injectThrew |-> threw,
                      copyCalled |-> fallback,
                      copyThrew |-> fallback /\ copy.threw,
                      clipFault |-> j.clipFault \/ (fallback /\ copy.threw),
                      threw |-> j.caller = "injectText" /\ threw,
                      success |-> ~threw,
                      steps |-> IF fallback THEN j.steps \o copy.steps ELSE j.steps]]

\* a finally block that never writes the original content back (sensitivity
\* variant for C20_ClipboardPreservedUnlessFault)
injectFinallyNoRestore(clip, j, threw, copyOk) == injectReturns(clip, j, threw, copyOk)

\* the finally block of injectText()
injectFinally(clip, j, threw, copyOk) ==
    IF j.preserve /\ j.original # NoText
    THEN [clipboard |-> clip,
          inj |-> [j EXCEPT !.pc = "delay250", !.threw = threw],
          injLast |-> NoInjLast]
    ELSE injectReturns(clip, j, threw, copyOk)

\* injectText(text, preserveClipboard) up to its first await; readOk / writeOk
\* are FALSE when clipboard.readText / clipboard.writeText throws
injectText(clip, text, preserve, caller, readOk, writeOk, copyOk) ==
    LET j0 == [pc |-> "idle", text |-> text, preserve |-> preserve,
               caller |-> caller, atCall |-> clip, original |-> NoText,
               threw |-> FALSE, restored |-> FALSE, pasted |-> FALSE,
               readFailed |-> FALSE, restoreFailed |-> FALSE,
               disturbed |-> FALSE, clipFault |-> FALSE, steps |-> <<>>]
        j1 == [j0 EXCEPT !.original = IF preserve /\ readOk THEN clip ELSE NoText,
                         !.readFailed = preserve /\ ~readOk,
                         !.clipFault = (preserve /\ ~readOk) \/ ~writeOk,
                         !.steps = IF preserve THEN <<"snapshot", "write">>
                                   ELSE <<"write">>]
    IN  IF ~isMac \/ blank(text)
        THEN injectReturns(clip, j0, TRUE, copyOk)
        ELSE IF writeOk
        THEN [clipboard |-> text, inj |-> [j1 EXCEPT !.pc = "delay50"],
              injLast |-> NoInjLast]
        ELSE injectFinally(clip, j1, TRUE, copyOk)

SetInjection(t) ==
    /\ clipboard' = t.clipboard
    /\ inj' = t.inj
    /\ injLast' = t.injLast
    /\ UNCHANGED <<isMac, inj2, hkVars, engVars, coVars, rendVars>>

\* a request that returns without calling injectText()
returnsAtOnce(op, text, preserve, clip, copyCalled, copyThrew, success, steps) ==
    [clipboard |-> clip, inj |-> NoInjection,
     injLast |-> [op |-> op, text |-> text, preserve |-> preserve,
                  atCall |-> clipboard, original |-> NoText, restored |-> FALSE,
                  pasted |-> FALSE, readFailed |-> FALSE, restoreFailed |-> FALSE,
                  disturbed |-> FALSE, injectCalled |-> FALSE,
                  injectThrew |-> FALSE, copyCalled |-> copyCalled,
                  copyThrew |-> copyThrew, clipFault |-> copyThrew,
                  threw |-> op = "copyToClipboard" /\ copyThrew,
                  success |-> success, steps |-> steps]]

\* TextInjectionService.injectText called directly
InjectText ==
    \E text \in InjectTexts, preserve, readOk, writeOk \in BOOLEAN :
        /\ inj.pc = "idle"
        /\ SetInjection(injectText(clipboard, text, preserve, "injectText",
                                   readOk, writeOk, TRUE))

\* a handleRecordingComplete without its empty-transcript early return
\* (sensitivity variant for C21_EmptyTranscriptNoEffect)
HandleRecordingCompleteUnguarded ==
    \E finalTranscript \in InjectTexts, preserve, readOk, writeOk, copyOk \in BOOLEAN :
        /\ inj.pc = "idle"
        /\ SetInjection(injectText(clipboard, finalTranscript, preserve,
                                   "handleRecordingComplete", readOk, writeOk, copyOk))

\* GlobalRecordingManager.handleRecordingComplete(finalTranscript)
HandleRecordingComplete ==
    \E finalTranscript \in InjectTexts, preserve, readOk, writeOk, copyOk \in BOOLEAN :
        /\ inj.pc = "idle"
        /\ SetInjection(
              IF blank(finalTranscript)
              THEN returnsAtOnce("handleRecordingComplete", finalTranscript, preserve,
                                 clipboard, FALSE, FALSE, TRUE, <<>>)
              ELSE injectText(clipboard, finalTranscript, preserve,
                              "handleRecordingComplete", readOk, writeOk, copyOk))

\* ipcMain.handle("inject-text")
InjectTextIpc ==
    \E text \in InjectTexts, preserve, readOk, writeOk \in BOOLEAN :
        /\ inj.pc = "idle"
        /\ SetInjection(
              IF blank(text)
              THEN returnsAtOnce("inject-text", text, preserve, clipboard,
                                 FALSE, FALSE, FALSE, <<>>)
              ELSE IF ~isMac
              THEN LET copy == copyToClipboard(clipboard, text, writeOk)
                   IN  returnsAtOnce("inject-text", text, preserve, copy.clipboard,
                                     TRUE, copy.threw, ~copy.threw, copy.steps)
              ELSE injectText(clipboard, text, preserve, "inject-text",
                              readOk, writeOk, TRUE))

\* TextInjectionService.copyToClipboard called directly
CopyToClipboard ==
    \E text \in InjectTexts, writeOk \in BOOLEAN :
        /\ inj.pc = "idle"
        /\ LET copy == copyToClipboard(clipboard, text, writeOk)
           IN  SetInjection(returnsAtOnce("copyToClipboard", text, FALSE,
                                          copy.clipboard, TRUE, copy.threw,
                                          ~copy.threw, copy.steps))

\* an injectText() that writes the original content back before it issues the
\* paste command (sensitivity variant for C28_SnapshotWritePasteRestore)
Delay50RestoresEarly ==
    /\ inj.pc = "delay50"
    /\ SetInjection(
          IF inj.preserve /\ inj.original # NoText
          THEN [clipboard |-> inj.original,
                inj |-> [inj EXCEPT !.pc = "osascript", !.restored = TRUE,
                                    !.steps = Append(@, "restore")],
                injLast |-> NoInjLast]
          ELSE [clipboard |-> clipboard, inj |-> [inj EXCEPT !.pc = "osascript"],
                injLast |-> NoInjLast])

\* delay(50) elapses
Delay50 ==
    /\ inj.pc = "delay50"
    /\ SetInjection([clipboard |-> clipboard, inj |-> [inj EXCEPT !.pc = "osascript"],
                     injLast |-> NoInjLast])

\* the osascript paste command ends; ok = FALSE when it fails
Paste ==
    \E ok, copyOk \in BOOLEAN :
        /\ inj.pc = "osascript"
        /\ SetInjection(
              IF ok
              THEN [clipboard |-> clipboard,
                    inj |-> [inj EXCEPT !.pc = "delay150", !.pasted = TRUE,
                                        !.steps = Append(@, "paste")],
                    injLast |-> NoInjLast]
              ELSE injectFinally(clipboard, [inj EXCEPT !.steps = Append(@, "paste")],
                                 TRUE, copyOk))

\* delay(150) elapses
Delay150 ==
    /\ inj.pc = "delay150"
    /\ SetInjection(injectFinally(clipboard, inj, FALSE, TRUE))

\* delay(250) elapses and the original clipboard is written back
Delay250 ==
    \E writeOk, copyOk \in BOOLEAN :
        /\ inj.pc = "delay250"
        /\ SetInjection(
              injectReturns(IF writeOk THEN inj.original ELSE clipboard,
                            [inj EXCEPT !.restored = writeOk,
                                        !.restoreFailed = ~writeOk,
                                        !.clipFault = @ \/ ~writeOk,
                                        !.steps = Append(@, "restore")],
                            inj.threw, copyOk))

\* something else writes the clipboard (the user copies a text)
ExternalCopy ==
    \E text \in CopiedTexts :
        /\ text # clipboard
        /\ SetInjection(
              [clipboard |-> text,
               inj |-> IF inj.pc = "idle" THEN inj ELSE [inj EXCEPT !.disturbed = TRUE],
               injLast |-> NoInjLast])

\* ------------------------------ two injectText calls that overlap in time
\* the state of an overlapping call after a step t of it; o keeps what the
\* clipboard held before the first call and what the first call was asked
SetOverlap(t, o) ==
    /\ clipboard' = t.clipboard
    /\ inj2' = [o EXCEPT !.pc = IF t.inj.pc = "idle" THEN "done" ELSE "running",
                         !.call = t.inj,
                         !.ret = t.injLast]
    /\ UNCHANGED <<isMac, inj, injLast, hkVars, engVars, coVars, rendVars>>

\* injectText() of a call after its await, by where the call stands
resumeInjection(clip, j, ok, writeOk, copyOk) ==
    IF j.pc = "delay50"
    THEN [clipboard |-> clip, inj |-> [j EXCEPT !.pc = "osascript"],
          injLast |-> NoInjLast]
    ELSE IF j.pc = "osascript"
    THEN IF ok
         THEN [clipboard |-> clip,
               inj |-> [j EXCEPT !.pc = "delay150", !.pasted = TRUE,
                                 !.steps = Append(@, "paste")],
               injLast |-> NoInjLast]
         ELSE injectFinally(clip, [j EXCEPT !.steps = Append(@, "paste")],
                            TRUE, copyOk)
    ELSE IF j.pc = "delay150"
    THEN injectFinally(clip, j, FALSE, TRUE)
    ELSE injectReturns(IF writeOk THEN j.original ELSE clip,
                       [j EXCEPT !.restored = writeOk,
                                 !.restoreFailed = ~writeOk,
                                 !.clipFault = @ \/ ~writeOk,
                                 !.steps = Append(@, "restore")],
                       j.threw, copyOk)

\* injectText called while no call is in progress
InjectTextFirst ==
    \E text \in InjectTexts, preserve, readOk, writeOk \in BOOLEAN :
        /\ inj.pc = "idle"
        /\ inj2.pc # "running"
        /\ LET t == injectText(clipboard, text, preserve, "injectText",
                               readOk, writeOk, TRUE)
           IN  /\ clipboard' = t.clipboard
               /\ inj' = t.inj
               /\ injLast' = t.injLast
        /\ inj2' = NoOverlap
        /\ UNCHANGED <<isMac, hkVars, engVars, coVars, rendVars>>

\* injectText called while an earlier call is suspended at one of its awaits
InjectTextOverlapping ==
    \E text \in InjectTexts, preserve, readOk, writeOk \in BOOLEAN :
        /\ inj.pc # "idle"
        /\ inj2.pc = "idle"
        /\ SetOverlap(injectText(clipboard, text, preserve, "injectText",
                                 readOk, writeOk, TRUE),
                      [pc |-> "running", call |-> NoInjection, ret |-> NoInjLast,
                       before |-> inj.atCall, firstText |-> inj.text,
                       firstPreserve |-> inj.preserve, text |-> text,
                       preserve |-> preserve])

\* a delay or the paste command of the overlapping call ends
OverlappingResumes ==
    \E ok, writeOk \in BOOLEAN :
        /\ inj2.pc = "running"
        /\ SetOverlap(resumeInjection(clipboard, inj2.call, ok, writeOk, TRUE), inj2)

InjectInit ==
    /\ isMac \in BOOLEAN
    /\ clipboard \in CopiedTexts
    /\ inj = NoInjection
    /\ inj2 = NoOverlap
    /\ injLast = NoInjLast

\* ============================== renderer: GlobalRecordingHandler component
NoCaptureRefs == [processor |-> FALSE, audioContext |-> FALSE, stream |-> FALSE]
NoRendererLast == [op |-> "none"]

\* cleanup(): every resource a ref points to is released and the ref nulled
cleanupRefs == NoCaptureRefs
cleanupLive == IF captureRefs.processor THEN liveCaptures - 1 ELSE liveCaptures

\* the rest of stopAudioCapture() once the stop request has been answered
\* with transcript; sess is the session the answered stop() call ended
stopAudioCaptureResume(transcript, sess, ref, interim) ==
    LET finalTranscript == IF transcript # <<>> THEN transcript ELSE ref
        injects == finalTranscript # <<>> /\ Len(Trim(finalTranscript, 0)) > 0
    IN  /\ rLast' = [op |-> "stopped", injected |-> injects,
                     text |-> finalTranscript, sess |-> sess,
                     fallback |-> transcript = <<>>,
                     interim |-> transcript = <<>> /\ interim]
        /\ currentTranscriptRef' = <<>>
        /\ refInterim' = FALSE

\* 'global-recording-started' listener: startAudioCapture() up to its first
\* await, with the "start-streaming-transcription" handler of the main process
OnGlobalRecordingStarted ==
    \E key \in Credentials, created \in BOOLEAN :
        /\ lastNotification # "started"
        /\ calls < MaxIpcCalls
        /\ EngineStart(key, created)
        /\ lastNotification' = "started"
        /\ captures' = Append(captures,
                              [pc |-> "start",
                               sock |-> IF hasCredential(key) /\ created
                                        THEN FreeSocket ELSE 0])
        /\ rLast' = [op |-> "started"]
        /\ UNCHANGED <<captureRefs, liveCaptures, currentTranscriptRef, refInterim>>
        /\ UNCHANGED <<proto, audioSince, hkVars, coVars, injVars>>

\* captures without its k-th element
RemoveCapture(k) ==
    [j \in 1..(Len(captures) - 1) |-> IF j < k THEN captures[j] ELSE captures[j + 1]]

\* startAudioCapture() resumes with the answer of the start request (always
\* success: true) and asks for the microphone
StartAnswered ==
    \E k \in 1..Len(captures) :
        /\ captures[k].pc = "start"
        /\ IF captures[k].sock = 0 THEN TRUE
           ELSE sockets[captures[k].sock].resolved
        /\ captures' = [captures EXCEPT ![k].pc = "media"]
        /\ rLast' = [op |-> "startAnswered"]
        /\ UNCHANGED <<lastNotification, captureRefs, liveCaptures,
                       currentTranscriptRef, refInterim>>
        /\ UNCHANGED <<hkVars, engVars, coVars, injVars>>

\* getUserMedia() settles: startAudioCapture() builds the capture graph and
\* stores it in the refs, or logs the rejection
GetUserMediaSettled ==
    \E k \in 1..Len(captures), granted \in BOOLEAN :
        /\ captures[k].pc = "media"
        /\ captures' = RemoveCapture(k)
        /\ IF granted
           THEN /\ captureRefs' = [processor |-> TRUE, audioContext |-> TRUE,
                                   stream |-> TRUE]
                /\ liveCaptures' = liveCaptures + 1
           ELSE UNCHANGED <<captureRefs, liveCaptures>>
        /\ rLast' = [op |-> "media", granted |-> granted]
        /\ UNCHANGED <<lastNotification, currentTranscriptRef, refInterim>>
        /\ UNCHANGED <<hkVars, engVars, coVars, injVars>>

\* processor.onaudioprocess of a capture graph that was not torn down, with
\* the "send-audio-chunk" handler of the main process
OnAudioProcess ==
    \E len \in FrameLengths :
        /\ liveCaptures > 0
        /\ calls < MaxIpcCalls
        /\ EngineSendAudio(len)
        /\ rLast' = [op |-> "chunk", notified |-> lastNotification,
                     handlers |-> Len(captures), flushing |-> Waiting(Engine) # {}]
        /\ UNCHANGED <<lastNotification, captures, captureRefs, liveCaptures,
                       currentTranscriptRef, refInterim>>
        /\ UNCHANGED <<proto, audioSince, hkVars, coVars, injVars>>

\* 'global-recording-stopped' listener: stopAudioCapture() with the
\* "stop-streaming-transcription" handler of the main process; it resumes in
\* this step when stop() returns without waiting for a flush pass
OnGlobalRecordingStopped ==
    /\ lastNotification = "started"
    /\ calls < MaxIpcCalls
    /\ lastNotification' = "stopped"
    /\ captureRefs' = cleanupRefs
    /\ liveCaptures' = cleanupLive
    /\ EngineStop("ipc", FALSE)
    /\ IF Len(passes') = Len(passes)
       THEN stopAudioCaptureResume(stopRet'.val, session, currentTranscriptRef,
                                   refInterim)
       ELSE /\ rLast' = [op |-> "stopping"]
            /\ UNCHANGED <<currentTranscriptRef, refInterim>>
    /\ UNCHANGED captures
    /\ UNCHANGED <<proto, audioSince, hkVars, coVars, injVars>>

\* a transcript message of the cloud backend, with the 'streaming-transcript'
\* listener of the renderer
StreamingMessage ==
    \E i \in SocketIds, isFinal \in BOOLEAN :
        \E transcript \in Transcripts(i) :
            /\ sockets[i].state \in {"OPEN", "CLOSING"}
            /\ transcript # <<>> => sockets[i].audio /\ messagesSent < MaxMessages
            /\ EventCore(handleDeepgramMessage(Engine, transcript, isFinal), "none")
            /\ messagesSent' = IF transcript # <<>> THEN messagesSent + 1
                               ELSE messagesSent
            /\ IF transcript # <<>>
               THEN /\ currentTranscriptRef' =
                          IF isFinal THEN Trim(fullTranscript', 0)
                          ELSE fullTranscript \o transcript
                    /\ refInterim' = ~isFinal
               ELSE UNCHANGED <<currentTranscriptRef, refInterim>>
            /\ rLast' = [op |-> "message"]
            /\ UNCHANGED <<lastNotification, captures, captureRefs, liveCaptures>>

\* a local pass ends, with the 'streaming-transcript' listener of the renderer
\* and, when a stop() call was waiting for the pass, the rest of
\* stopAudioCapture()
StreamingPassComplete ==
    \E p \in 1..Len(passes), outcome \in {"text", "silence", "throw"} :
        LET text == transcribeAudio(passes[p].audio, outcome)
            hasText == outcome # "throw" /\ text # <<>> /\ Len(Trim(text, 0)) > 0
            ref == IF hasText THEN Trim(fullTranscript \o text \o <<0>>, 0)
                   ELSE currentTranscriptRef
            interim == IF hasText THEN FALSE ELSE refInterim
        IN  /\ EventCore(passResume(Engine, p, outcome), passes[p].waiter.kind)
            /\ UNCHANGED messagesSent
            /\ IF passes[p].waiter.kind = "ipc"
               THEN stopAudioCaptureResume(stopRet'.val, passes[p].waiter.sess,
                                           ref, interim)
               ELSE /\ currentTranscriptRef' = ref
                    /\ refInterim' = interim
                    /\ rLast' = [op |-> "message"]
            /\ UNCHANGED <<lastNotification, captures, captureRefs, liveCaptures>>

RendererInit ==
    /\ lastNotification = "none"
    /\ captures = <<>>
    /\ captureRefs = NoCaptureRefs
    /\ liveCaptures = 0
    /\ currentTranscriptRef = <<>>
    /\ refInterim = FALSE
    /\ rLast = NoRendererLast

\* ====================================================== specifications
\* the application on macOS with an empty clipboard
Init == HotkeyInit /\ EngineInit /\ CoordinatorInit /\ InjectInit /\ RendererInit
        /\ isMac /\ clipboard = <<>>

\* the application on any platform, with any clipboard content
InitAnyPlatform ==
    HotkeyInit /\ EngineInit /\ CoordinatorInit /\ InjectInit /\ RendererInit

\* the application once its startup has registered the default hotkey
InitRegistered ==
    /\ EngineInit /\ CoordinatorInit /\ InjectInit /\ RendererInit
    /\ isMac /\ clipboard = <<>>
    /\ currentHotkey = DefaultHotkey
    /\ osRegistered = {DefaultHotkey}
    /\ isRecording = FALSE
    /\ recordingStartTime = FALSE
    /\ durationInterval = FALSE
    /\ intervals = 0
    /\ overlayVisible = FALSE
    /\ overlayWindow = TRUE
    /\ hotkeyServiceInstance = TRUE
    /\ windowDestroyed = FALSE
    /\ hotkeySetting = DefaultHotkey
    /\ presses = 0
    /\ hkLast = [op |-> "init"]
    /\ pressSent = <<"none", "none">>

\* the hotkey trigger on its own
NextHotkey ==
    Register \/ Unregister \/ Press \/ ForceStop \/ WindowClosed
        \/ UpdateTranscriptPreview \/ DurationTick \/ BeforeQuit
SpecHotkey == Init /\ [][NextHotkey]_vars

\* the trigger behind the renderer's register / unregister requests
NextHotkeyIpc ==
    RegisterGlobalHotkey \/ Unregister \/ Press \/ ForceStop \/ WindowClosed
SpecHotkeyIpc == InitRegistered /\ [][NextHotkeyIpc]_vars

\* the engine driven through the streaming IPC handlers
NextEngine == StartStreaming \/ StopStreaming \/ SendAudioChunkIpc \/ Events
SpecEngine == Init /\ [][NextEngine]_vars

\* the engine driven by a caller that awaits each call
NextSession ==
    SessionStart \/ SessionSendAudio \/ SessionStop \/ Events \/ WindowClosed
SpecSession == Init /\ [][NextSession]_vars

\* the engine driven by the recording coordinator
NextCoordinator ==
    StartRecording \/ StopRecording \/ SendAudioChunk \/ Cleanup \/ Events
SpecCoordinator == Init /\ [][NextCoordinator]_vars

\* the coordinator over an engine whose start() and stop() may throw
NextCoordinatorFaults ==
    \/ StartRecording \/ StopRecording \/ SendAudioChunk
    \/ StartRecordingThrows \/ StopRecordingThrows \/ Events
SpecCoordinatorFaults == Init /\ [][NextCoordinatorFaults]_vars

\* the renderer's handler over the streaming IPC handlers and the engine
NextRenderer ==
    \/ OnGlobalRecordingStarted \/ StartAnswered \/ GetUserMediaSettled
    \/ OnAudioProcess \/ OnGlobalRecordingStopped
    \/ SocketOpen \/ SocketError \/ SocketClose \/ ConnectTimeout
    \/ StreamingMessage \/ StreamingPassComplete
SpecRenderer == Init /\ [][NextRenderer]_vars

\* text injection on its own
NextInject ==
    InjectText \/ HandleRecordingComplete \/ InjectTextIpc \/ CopyToClipboard
        \/ Delay50 \/ Paste \/ Delay150 \/ Delay250 \/ ExternalCopy
SpecInject == InitAnyPlatform /\ [][NextInject]_vars

\* two callers of injectText, neither waiting for the other
NextInjectOverlap ==
    \/ InjectTextFirst \/ InjectTextOverlapping \/ OverlappingResumes
    \/ Delay50 \/ Paste \/ Delay150 \/ Delay250
SpecInjectOverlap == InitAnyPlatform /\ [][NextInjectOverlap]_vars

\* the trigger and the engine behind the renderer's awaited IPC calls, up to
\* the shutdown of the process
NextShutdown ==
    Press \/ SessionStart \/ SessionSendAudio \/ SessionStop \/ Events \/ BeforeQuit
SpecShutdown == InitRegistered /\ [][NextShutdown]_vars

Next == NextHotkey \/ NextEngine \/ NextSession \/ NextCoordinator \/ NextInject
            \/ NextShutdown \/ NextCoordinatorFaults \/ NextHotkeyIpc
            \/ NextRenderer \/ NextInjectOverlap
Spec == Init /\ [][Next]_vars

\* ============================================================== claims

\* ---- C1 ------------------------------------------------------------
\* C1 as stated: the k-th press since construction or the last forceStop sends
\* 'global-recording-started' iff k is odd and 'global-recording-stopped' iff
\* k is even, and no two consecutive presses both send 'started'.
C1_PressReportsAlternate ==
    /\ hkLast.op = "press" =>
          /\ (hkLast.sent = "global-recording-started") <=> (hkLast.k % 2 = 1)
          /\ (hkLast.sent = "global-recording-stopped") <=> (hkLast.k % 2 = 0)
    /\ pressSent # <<"global-recording-started", "global-recording-started">>

\* C1 amended: the recording flag is true exactly after an odd number of
\* presses; a press made while the main window exists sends 'started' iff it is
\* an odd press and 'stopped' iff it is an even one; a press made after the
\* window was destroyed sends nothing; two consecutive presses never both send
\* 'started'.
C1_FlagAlternates ==
    /\ isRecording = (presses % 2 = 1)
    /\ hkLast.op = "press" =>
          /\ hkLast.k = presses
          /\ hkLast.sent =
                IF hkLast.destroyed THEN "none"
                ELSE IF hkLast.k % 2 = 1 THEN "global-recording-started"
                ELSE "global-recording-stopped"
    /\ pressSent # <<"global-recording-started", "global-recording-started">>

\* the third press of a run has just reported that recording started
C1_Witness ==
    /\ hkLast.op = "press"
    /\ hkLast.k = 3
    /\ hkLast.sent = "global-recording-started"
    /\ pressSent = <<"global-recording-stopped", "global-recording-started">>

\* ---- C2 ------------------------------------------------------------
\* C2 as stated: register() of an accelerator without a modifier key returns
\* false and leaves currentHotkey and the OS-level registration as they were.
C2_InvalidRegisterKeepsPrior ==
    (hkLast.op = "register" /\ ~hasModifier(hkLast.acc)) =>
        /\ hkLast.ret = FALSE
        /\ currentHotkey = hkLast.prevHotkey
        /\ osRegistered = hkLast.prevOs

\* ---- C3 ------------------------------------------------------------
\* C3 as stated: when the OS-level registration of a valid accelerator fails
\* (conflict, or the OS call raises), register() returns false without throwing
\* and the accelerator registered before the call is still registered.
C3_FailedRegisterKeepsPrior ==
    (hkLast.op = "register" /\ hkLast.osOutcome \in {"conflict", "throw"}) =>
        /\ hkLast.ret = FALSE
        /\ ~hkLast.threw
        /\ currentHotkey = hkLast.prevHotkey
        /\ osRegistered = hkLast.prevOs

\* ---- C4 ------------------------------------------------------------
\* C4 as stated: when stopRecording ran while startRecording was suspended in
\* Engine.start, then once both calls have completed the coordinator is
\* inactive and the engine is stopped: no socket is open or still connecting.
C4_StopDuringStartNotLost ==
    (/\ race = "stopDuringStart"
     /\ Pending(Engine) = {}
     /\ Waiting(Engine) = {}) =>
        /\ ~isActive
        /\ ~isConnected
        /\ \A i \in SocketIds : sockets[i].state \notin {"CONNECTING", "OPEN"}

\* ---- C5 ------------------------------------------------------------
\* C5: a stopRecording call made while the coordinator is inactive returns the
\* empty string at once, makes no call on the engine, and changes neither the
\* coordinator's nor the engine's state.
C5_StopWhileInactiveIsNoop ==
    [][(~isActive /\ coLast'.op = "stopRecording") =>
          /\ coLast'.returned
          /\ coLast'.ret = <<>>
          /\ ~coLast'.engineCalled
          /\ UNCHANGED <<isActive, streamingService, engVars>>]_vars

\* stopRecording was just called on an inactive coordinator that had run a
\* session before
C5_Witness ==
    /\ coLast.op = "stopRecording"
    /\ ~coLast.engineCalled
    /\ ~isActive
    /\ session > 0
    /\ finished > 0

\* ---- C6 ------------------------------------------------------------
\* C6: a startRecording call made while a session is active makes no call on
\* the engine, does not throw, and leaves active, the engine's mode, its
\* buffered audio and its accumulated transcript (all engine state) unchanged.
C6_StartWhileActiveIsNoop ==
    [][(isActive /\ coLast'.op = "startRecording") =>
          /\ ~coLast'.engineCalled
          /\ ~coLast'.threw
          /\ UNCHANGED <<isActive, streamingService, engVars>>]_vars

\* startRecording was just called on an active session that holds buffered audio
C6_Witness ==
    /\ coLast.op = "startRecording"
    /\ ~coLast.engineCalled
    /\ isActive
    /\ audioChunks # <<>>

\* ---- C7 ------------------------------------------------------------
\* C7 as stated: every Engine.start call that returns reports success; it
\* reports cloud mode only if a non-empty credential was given and the socket
\* opened before the timeout fired and before any connection error; the
\* engine's own mode equals the reported mode.
C7_StartReport ==
    startRet.mode # "none" =>
        /\ startRet.success
        /\ startRet.mode \in {"deepgram", "whisper"}
        /\ startRet.engineMode = startRet.mode
        /\ startRet.mode = "deepgram" =>
              /\ startRet.credential
              /\ startRet.sockState = "OPEN"
              /\ ~startRet.timedOut

\* ---- C8 ------------------------------------------------------------
\* C8 as stated, in the form a finite run refutes: a start() call that has not
\* returned can still be let return by its socket opening or failing
\* or by its timer firing.
C8_PendingStartCanReturn ==
    \A i \in Pending(Engine) :
        \/ sockets[i].state \in {"CONNECTING", "ABORTED"}
        \/ sockets[i].timer = "armed"

\* ---- C9 ------------------------------------------------------------
\* C9 as stated: the transcript a stop() call returns holds no word of a
\* session that an earlier stop() had already ended when this stop() was called.
C9_NothingCarriedOver ==
    stopRet.kind # "none" =>
        \A k \in 1..Len(stopRet.val) :
            \/ stopRet.val[k] = 0
            \/ SessionOf(stopRet.val[k]) > stopRet.finishedAtCall

\* ---- C10 -----------------------------------------------------------
\* C10 as stated: a stop() called right after start() returned, with no
\* sendAudio call since that start(), returns an empty or whitespace-only
\* transcript.
C10_RoundTripEmpty ==
    (stopRet.kind # "none" /\ stopRet.roundTrip) => Trim(stopRet.val, 0) = <<>>

\* ---- C11 -----------------------------------------------------------
\* C11 as stated: when stop() returns in local mode, every frame sendAudio
\* accepted in the session has been consumed by a transcribeAudio call that
\* has completed: none is left in the buffer stop() discards and none belongs
\* to a pass still in flight.
C11_StopFlushesAllAudio ==
    (stopRet.kind # "none" /\ stopRet.mode = "whisper") => stopRet.lost = {}

\* ---- C12 -----------------------------------------------------------
\* C12 as stated: at most one transcribeAudio call made by the engine is in
\* flight at any time.
C12_PassesNeverOverlap == Len(passes) <= 1

\* ---- C13 -----------------------------------------------------------
\* the transcripts, each trimmed, joined by single spaces
RECURSIVE JoinTrimmed(_)
JoinTrimmed(transcripts) ==
    IF transcripts = <<>> THEN <<>>
    ELSE IF Len(transcripts) = 1 THEN Trim(Head(transcripts), 0)
    ELSE Trim(Head(transcripts), 0) \o <<0>> \o JoinTrimmed(Tail(transcripts))

\* C13 as stated: in cloud mode stop() returns the transcripts of the final
\* messages received since start(), in arrival order, joined by single spaces
\* and trimmed ('hello' then ' world' give 'hello world'); non-final and empty
\* messages contribute nothing.
C13_CloudTranscriptSpaceJoined ==
    (stopRet.kind # "none" /\ stopRet.mode = "deepgram") =>
        stopRet.val = JoinTrimmed(stopRet.finals)

\* ---- C14 -----------------------------------------------------------
\* C14 as stated: a session started without credential, in which at least one
\* frame but fewer samples than the inference threshold were sent, and whose
\* stopRecording is called with no pass in flight: stop() runs exactly one
\* transcribeAudio call, on all frames sent since start in the order sent, and
\* returns that call's text trimmed; stopRecording returns the same string.
C14_StopTranscribesShortSession ==
    (/\ stopRet.kind = "stopRecording"
     /\ \/ coLast.op = "stopRecordingReturn"
        \/ coLast.op = "stopRecording" /\ coLast.engineCalled /\ coLast.returned
     /\ stopRet.since.local
     /\ stopRet.since.frames # <<>>
     /\ totalSamples(stopRet.since.frames) < FiveSeconds
     /\ stopRet.idle) =>
        /\ stopRet.ran = 1
        /\ stopRet.audio = stopRet.since.frames
        /\ stopRet.val = Trim(stopRet.text, 0)
        /\ coLast.ret = stopRet.val

\* ---- C15 -----------------------------------------------------------
\* C15 as stated: while the connection attempt of the last start() is pending
\* (its socket is connecting, the call has not returned), a frame passed to
\* sendAudio is dropped: it is not transmitted, not appended to the local
\* buffer, starts no local pass and leaves the accumulated transcript alone.
C15_FramesDroppedWhileConnecting ==
    [][(/\ ws # 0
        /\ sockets[ws].state = "CONNECTING"
        /\ ~sockets[ws].resolved
        /\ framesSent' = framesSent + 1) =>
           /\ UNCHANGED <<audioChunks, passes, whisperProcessing, fullTranscript>>
           /\ sockets'[ws].audio = sockets[ws].audio]_vars

\* ---- C16 -----------------------------------------------------------
\* C16 as stated: between the return of start() and the following stop() call
\* the engine's mode is the mode start() reported and does not change; a socket
\* open event arriving in a session that runs in local mode does not switch it.
C16_ModeFixedDuringSession ==
    [][(/\ sinceStart.reported # "none"
        /\ sinceStart'.id = sinceStart.id
        /\ sinceStart'.reported # "none") =>
           /\ mode = sinceStart.reported
           /\ mode' = mode]_vars

\* ---- C17 -----------------------------------------------------------
\* C17: sendAudioChunk calls Engine.sendAudio exactly when active is true; a
\* frame received while active is false changes nothing in the engine; a frame
\* reaches the engine only through sendAudioChunk while active, and arrives
\* there behind all frames forwarded before it (the order is recorded for
\* sessions started without credential).
C17_FramesOnlyWhileActive ==
    [][/\ coLast'.op = "sendAudioChunk" =>
            /\ coLast'.engineCalled <=> isActive
            /\ ~isActive => UNCHANGED engVars
       /\ framesSent' # framesSent =>
            /\ isActive
            /\ coLast'.op = "sendAudioChunk"
            /\ framesSent' = framesSent + 1
            /\ sinceStart.local =>
                  /\ Len(sinceStart'.frames) = Len(sinceStart.frames) + 1
                  /\ sinceStart'.frames[Len(sinceStart'.frames)].id = framesSent'
                  /\ SubSeq(sinceStart'.frames, 1, Len(sinceStart.frames)) =
                         sinceStart.frames]_vars

\* a frame has just been dropped by a coordinator that ran a session before
\* and forwarded frames in it
C17_Witness ==
    /\ coLast.op = "sendAudioChunk"
    /\ ~coLast.engineCalled
    /\ ~isActive
    /\ streamingService
    /\ framesSent > 1

C19_FailedInjectionLeavesTranscript ==
    (/\ injLast.op = "inject-text"
     /\ ~blank(injLast.text)
     /\ ~injLast.success
     /\ ~injLast.clipFault
     /\ ~injLast.disturbed) =>
        clipboard = injLast.text

\* ---- C20 -----------------------------------------------------------
\* C20 as stated: when injectText(T, preserveClipboard) has returned for a
\* non-empty T and nothing else wrote the clipboard meanwhile, the clipboard
\* holds the content C it had at the call if preserveClipboard is true, and T
\* if it is false.
C20_ClipboardPreserved ==
    (/\ injLast.op = "injectText"
     /\ ~blank(injLast.text)
     /\ ~injLast.injectThrew
     /\ ~injLast.disturbed) =>
        clipboard = IF injLast.preserve THEN injLast.atCall ELSE injLast.text

\* C20 amended: when injectText(T, preserveClipboard) has returned for a
\* non-empty T and nothing else wrote the clipboard meanwhile: with
\* preserveClipboard true the clipboard holds the content C it had at the
\* call, provided reading the clipboard at the start and writing C back at the
\* end both succeeded, and T otherwise; with preserveClipboard false it holds T.
C20_ClipboardPreservedUnlessFault ==
    (/\ injLast.op = "injectText"
     /\ ~blank(injLast.text)
     /\ ~injLast.injectThrew
     /\ ~injLast.disturbed) =>
        clipboard = IF injLast.preserve /\ ~injLast.readFailed /\ ~injLast.restoreFailed
                    THEN injLast.atCall
                    ELSE injLast.text

\* an injection with preserveClipboard on has returned and the clipboard again
\* holds its earlier, different content
C20_Witness ==
    /\ injLast.op = "injectText"
    /\ ~injLast.injectThrew
    /\ injLast.preserve
    /\ injLast.pasted
    /\ injLast.restored
    /\ ~injLast.disturbed
    /\ injLast.atCall = <<2>>
    /\ clipboard = <<2>>
    /\ injLast.text = <<1>>

\* ---- C21 -----------------------------------------------------------
\* C21: handleRecordingComplete called with an empty or whitespace-only
\* transcript returns without calling injectText or copyToClipboard, without
\* any clipboard access or paste command, and with the clipboard as it was.
C21_EmptyTranscriptNoEffect ==
    (/\ injLast.op = "handleRecordingComplete"
     /\ Trim(injLast.text, 0) = <<>>) =>
        /\ ~injLast.injectCalled
        /\ ~injLast.copyCalled
        /\ ~injLast.pasted
        /\ injLast.steps = <<>>
        /\ ~injLast.threw
        /\ inj = NoInjection
        /\ clipboard = injLast.atCall

\* handleRecordingComplete has returned for a whitespace-only transcript while
\* the clipboard held a text
C21_Witness ==
    /\ injLast.op = "handleRecordingComplete"
    /\ injLast.text = <<0>>
    /\ ~injLast.injectCalled
    /\ clipboard = <<2>>

\* ---- C22 -----------------------------------------------------------
\* C22: injectText and copyToClipboard called with an empty or whitespace-only
\* text throw before any clipboard read or write; after the call the
\* clipboard is as it was and no paste command was issued.
C22_BlankTextRejected ==
    (/\ injLast.op \in {"injectText", "copyToClipboard"}
     /\ Trim(injLast.text, 0) = <<>>) =>
        /\ injLast.threw
        /\ injLast.steps = <<>>
        /\ ~injLast.pasted
        /\ inj = NoInjection
        /\ clipboard = injLast.atCall

\* injectText has thrown on macOS for a whitespace-only text while the
\* clipboard held a text
C22_Witness ==
    /\ injLast.op = "injectText"
    /\ isMac
    /\ injLast.text = <<0>>
    /\ injLast.threw
    /\ clipboard = <<2>>

\* ---- C23 -----------------------------------------------------------
\* C23: an overlay state with isRecording = true is sent only while the
\* trigger is recording: whatever the interleaving of presses, forceStop,
\* timer ticks and preview callbacks, a step that ends with the trigger idle
\* has sent none, and updateTranscriptPreview sends one exactly when the
\* trigger is recording.
C23_NoOverlayUpdateWhileIdle ==
    /\ (hkLast.op \in {"press", "forceStop", "tick", "preview", "before-quit"}
            /\ hkLast.overlay = "recording") => isRecording
    /\ hkLast.op = "preview" => (hkLast.overlay = "recording" <=> isRecording)
    /\ durationInterval => isRecording /\ recordingStartTime

\* a preview callback has just been discarded after a forceStop that ended a
\* recording
C23_Witness ==
    /\ hkLast.op = "preview"
    /\ hkLast.overlay = "none"
    /\ ~isRecording
    /\ presses = 0
    /\ currentHotkey # NoHotkey

\* ---- C24 -----------------------------------------------------------
\* C24: in every reachable state the overlay window is visible if and only if
\* the trigger's recording flag is true (so it is shown exactly when the flag
\* turns true and hidden exactly when it turns false, by a press or by
\* forceStop).
C24_OverlayVisibleIffRecording == overlayVisible <=> isRecording

\* a forceStop has just ended a recording and hidden the overlay
C24_Witness ==
    /\ hkLast.op = "forceStop"
    /\ hkLast.wasRecording
    /\ ~overlayVisible
    /\ ~isRecording

\* ---- C25 -----------------------------------------------------------
\* C25: forceStop called in any state leaves the recording flag false, the
\* duration timer cancelled and the overlay hidden, sends no
\* 'global-recording-stopped' and touches neither the engine nor the
\* coordinator (it waits for no transcript); the next press starts a recording.
C25_ForceStopLeavesIdle ==
    [][/\ hkLast'.op = "forceStop" =>
            /\ ~isRecording'
            /\ ~durationInterval'
            /\ ~recordingStartTime'
            /\ ~overlayVisible'
            /\ hkLast'.sent = "none"
            /\ UNCHANGED <<engVars, coVars, currentHotkey, osRegistered>>
       /\ (hkLast'.op = "press" /\ presses = 0) =>
            /\ isRecording'
            /\ durationInterval'
            /\ overlayVisible']_vars

\* the first press after a forceStop that ended a recording has started a new
\* recording
C25_Witness ==
    /\ hkLast.op = "press"
    /\ hkLast.k = 1
    /\ presses = 1
    /\ isRecording
    /\ pressSent = <<"none", "global-recording-started">>
    /\ osRegistered # {}

\* ---- C27 -----------------------------------------------------------
\* C27: unregister() called while no accelerator is held changes nothing and
\* makes no call on globalShortcut; after any unregister() currentHotkey is
\* null and nothing is registered, so a second call in a row leaves the state
\* of the first.
C27_UnregisterIdempotent ==
    [][hkLast'.op = "unregister" =>
          /\ currentHotkey = NoHotkey =>
                /\ ~hkLast'.osCall
                /\ UNCHANGED <<currentHotkey, osRegistered, isRecording,
                               recordingStartTime, durationInterval,
                               overlayVisible, presses>>
          /\ currentHotkey' = NoHotkey
          /\ osRegistered' = {}]_vars

\* unregister() was called again after the accelerator in use had been released
C27_Witness ==
    /\ hkLast.op = "unregister"
    /\ ~hkLast.osCall
    /\ hkLast.prevHotkey = NoHotkey
    /\ presses > 0

\* ---- C26 -----------------------------------------------------------
\* C26 as stated: once the shutdown cleanup has run while the trigger was
\* recording (and no call was made on the engine since), the hotkey is
\* unregistered, the trigger is idle, the overlay is hidden, the engine has no
\* open or connecting socket, no buffered audio and no accumulated
\* transcript, and the cleanup started no local inference pass.
C26_ShutdownDiscardsSession ==
    (/\ hkLast.op = "before-quit"
     /\ hkLast.wasRecording
     /\ calls = hkLast.calls) =>
        /\ currentHotkey = NoHotkey
        /\ osRegistered = {}
        /\ ~isRecording
        /\ ~durationInterval
        /\ ~overlayVisible
        /\ ~isConnected
        /\ \A i \in SocketIds : sockets[i].state \notin {"CONNECTING", "OPEN"}
        /\ audioChunks = <<>>
        /\ fullTranscript = <<>>
        /\ Len(passes) <= Len(hkLast.passes)

\* ---- C28 -----------------------------------------------------------
\* position of a clipboard step in the order snapshot, write, paste, restore
StepRank(step) ==
    CASE step = "snapshot" -> 1
      [] step = "write" -> 2
      [] step = "paste" -> 3
      [] step = "restore" -> 4
      [] OTHER -> 5

\* C28: the clipboard steps of one injectText call happen in the order
\* snapshot of the original, write of the text, end of the paste command
\* (completed or failed), restore of the original; a restore is preceded by a
\* snapshot, and until the paste command has ended the clipboard holds the
\* text (nothing else writing it).
C28_SnapshotWritePasteRestore ==
    LET st == IF inj.pc # "idle" THEN inj.steps
              ELSE IF injLast.op # "none" THEN injLast.steps
              ELSE <<>>
    IN  /\ \A i, j \in 1..Len(st) : i < j => StepRank(st[i]) < StepRank(st[j])
        /\ (\E i \in 1..Len(st) : st[i] = "restore") => st[1] = "snapshot"
        /\ (inj.pc \in {"delay50", "osascript"} /\ ~inj.disturbed) =>
              /\ clipboard = inj.text
              /\ \A i \in 1..Len(st) : st[i] \notin {"paste", "restore"}

\* an injectText call has returned after all four steps
C28_Witness ==
    /\ injLast.op = "injectText"
    /\ injLast.steps = <<"snapshot", "write", "paste", "restore">>
    /\ injLast.pasted
    /\ injLast.restored

\* ---- C29 -----------------------------------------------------------
\* frames held by the passes in flight
inFlight(ps) == UNION {{ps[p].audio[k] : k \in 1..Len(ps[p].audio)} : p \in 1..Len(ps)}

\* frames held by the buffer
buffered(chunks) == {chunks[k] : k \in 1..Len(chunks)}

ErrorAfterOpen ==
    /\ sent'.cause = "socket"
    /\ \E i \in SocketIds :
          /\ sockets[i].state \in {"OPEN", "CLOSING"}
          /\ sockets'[i].state = "DYING"

\* the step is a stop() call in cloud mode on a socket that has had an error
StopAfterError ==
    /\ calls' = calls + 1
    /\ sinceStart.id # 0
    /\ sinceStart' = NoSession
    /\ mode = "deepgram"
    /\ ws # 0
    /\ sockets[ws].state = "DYING"

\* C30 as stated: an error of a cloud socket that had opened goes out on
\* 'streaming-error' and leaves the session as it was (mode, accumulated
\* transcript, buffer, passes, connection flag, current socket); a stop()
\* that follows returns at once, with the accumulated transcript trimmed.
C30_SocketErrorReported ==
    [][/\ ErrorAfterOpen =>
            /\ sent'.channel = "streaming-error"
            /\ UNCHANGED <<mode, fullTranscript, audioChunks, passes, isConnected,
                           ws, sinceStart, finals>>
       /\ StopAfterError =>
            /\ stopRet'.kind # "none"
            /\ stopRet'.val = Trim(fullTranscript, 0)]_vars

\* C30 amended: the same, the error going out on 'streaming-error' when the
\* main window still exists and nowhere when it has been destroyed.
C30_SocketErrorReportedToWindow ==
    [][/\ ErrorAfterOpen =>
            /\ sent'.channel = IF windowDestroyed THEN "none" ELSE "streaming-error"
            /\ UNCHANGED <<mode, fullTranscript, audioChunks, passes, isConnected,
                           ws, sinceStart, finals>>
       /\ StopAfterError =>
            /\ stopRet'.kind # "none"
            /\ stopRet'.val = Trim(fullTranscript, 0)]_vars

\* a stop() has just returned the transcript of a cloud session whose socket
\* had an error after it opened
C30_Witness ==
    /\ stopRet.kind # "none"
    /\ stopRet.mode = "deepgram"
    /\ stopRet.val # <<>>
    /\ stopRet.finals # <<>>
    /\ \E i \in SocketIds : sockets[i].state = "DYING"
    /\ ~windowDestroyed

\* ---- C31 -----------------------------------------------------------
\* C31 as stated: while a session is in progress (from its start() call to
\* its stop() call) every change of the accumulated transcript extends the
\* previous value: the old value is a prefix of the new one.
C31_TranscriptOnlyGrows ==
    [][(sinceStart.id # 0 /\ sinceStart'.id = sinceStart.id) =>
          /\ Len(fullTranscript') >= Len(fullTranscript)
          /\ SubSeq(fullTranscript', 1, Len(fullTranscript)) = fullTranscript]_vars

\* ---- C32 -----------------------------------------------------------
\* C32 as stated: in local mode a sendAudio call appends the frame and starts
\* a pass exactly when the buffered samples then total at least the threshold
\* and no pass is in flight; the pass takes the whole buffer and empties it;
\* and a frame in the buffer stays there until a pass takes it (frames sent
\* during a pass are kept for the next pass or the flush at stop).
C32_PassAtThreshold ==
    [][/\ (framesSent' = framesSent + 1 /\ mode = "whisper") =>
            LET started == Len(passes') = Len(passes) + 1
                got == IF started THEN passes'[Len(passes')].audio ELSE audioChunks'
            IN  /\ got # <<>>
                /\ got[Len(got)].id = framesSent'
                /\ SubSeq(got, 1, Len(got) - 1) = audioChunks
                /\ started <=> (totalSamples(got) >= FiveSeconds /\ passes = <<>>)
                /\ started => audioChunks' = <<>>
       /\ mode = "whisper" =>
            buffered(audioChunks) \subseteq
                (buffered(audioChunks') \cup inFlight(passes'))]_vars

\* ---- C33 -----------------------------------------------------------
\* C33: a duration timer is live exactly while the trigger is recording and
\* there is never more than one: the count of timers set and not cleared is
\* 1 while recording and 0 while idle, the held handle is set exactly while
\* recording, and a timer callback that updated the overlay's duration ran
\* while the trigger was recording.
C33_OneTimerIffRecording ==
    /\ intervals = (IF isRecording THEN 1 ELSE 0)
    /\ durationInterval <=> isRecording
    /\ (hkLast.op = "tick" /\ hkLast.overlay # "none") => isRecording

\* a timer callback ran during the second recording after a press pair
C33_Witness ==
    /\ hkLast.op = "tick"
    /\ hkLast.overlay = "recording"
    /\ presses = 3
    /\ intervals = 1

\* ---- C34 -----------------------------------------------------------
\* C34: an exception of the engine's start() or stop() does not escape the
\* coordinator and does not leave it active: after a startRecording whose
\* try block threw, the call has returned normally and the coordinator is
\* not active; after a stopRecording whose engine stop() threw, the call has
\* returned the empty string and the coordinator is not active.
C34_EngineExceptionsCaught ==
    ("caught" \in DOMAIN coLast) =>
        /\ ~isActive
        /\ coLast.op = "startRecording" => ~coLast.threw
        /\ coLast.op = "stopRecording" => (coLast.returned /\ coLast.ret = <<>>)

\* the engine's stop() threw in a session that had accumulated text
C34_Witness ==
    /\ "caught" \in DOMAIN coLast
    /\ coLast.op = "stopRecording"
    /\ fullTranscript # <<>>
    /\ ~isActive

\* ---- C35 -----------------------------------------------------------
\* C35 as stated: a 'register-global-hotkey' request changes the hotkey
\* setting only when it reports success; after a successful request the
\* setting equals the one accelerator the OS holds for the application; and a
\* request that reports failure leaves the setting, the service's current
\* hotkey and the OS registration as they were before the request.
C35_SettingWrittenOnSuccess ==
    [][hkLast'.op = "register" =>
          /\ hotkeySetting' # hotkeySetting => hkLast'.ret
          /\ hkLast'.ret =>
                /\ hotkeySetting' = hkLast'.acc
                /\ currentHotkey' = hotkeySetting'
                /\ osRegistered' = {hotkeySetting'}
          /\ ~hkLast'.ret =>
                /\ hotkeySetting' = hotkeySetting
                /\ currentHotkey' = currentHotkey
                /\ osRegistered' = osRegistered]_vars

\* ---- C36 -----------------------------------------------------------
\* C36 as stated: while a session is in progress, an event of a socket that
\* an earlier session created (its close event, its connect timeout, its open
\* event) leaves the session's socket reference, the state of the session's
\* socket and the connected flag as they were.
C36_StaleEventsHarmless ==
    [][\A i \in SocketIds :
          (/\ calls' = calls
           /\ framesSent' = framesSent
           /\ sinceStart.id = session
           /\ sockets[i].sess # 0
           /\ sockets[i].sess < session
           /\ sockets'[i] # sockets[i])
          => /\ ws' = ws
             /\ isConnected' = isConnected
             /\ ws # 0 => sockets'[ws].state = sockets[ws].state]_vars

\* ---- C37 -----------------------------------------------------------
\* C37 as stated: at most one socket created by the engine is connecting or
\* open at any time.
C37_AtMostOneLiveSocket ==
    Cardinality({i \in SocketIds : sockets[i].state \in {"CONNECTING", "OPEN"}}) <= 1

\* ---- C38 -----------------------------------------------------------
\* C38 as stated: once the last notification handled is
\* 'global-recording-stopped' and no startAudioCapture() or stopAudioCapture()
\* call is suspended any more, no capture graph is live and the processor,
\* audio context and stream refs are null; and no audio chunk is sent to the
\* main process in such a state.
C38_CaptureOffAfterStop ==
    /\ (lastNotification = "stopped" /\ captures = <<>> /\ Waiting(Engine) = {}) =>
          /\ liveCaptures = 0
          /\ captureRefs = NoCaptureRefs
    /\ rLast.op = "chunk" =>
          ~(rLast.notified = "stopped" /\ rLast.handlers = 0 /\ ~rLast.flushing)

\* ---- C40 -----------------------------------------------------------
\* C40 as stated: the text stopAudioCapture() injects at the end of a session
\* holds no non-final cloud result and only words transcribed in the session
\* its stop() call ended, also when stop() returned "" and the handler fell
\* back to the last streamed result.
C40_InjectsFinalTranscript ==
    (rLast.op = "stopped" /\ rLast.injected) =>
        /\ ~rLast.interim
        /\ \A k \in 1..Len(rLast.text) :
              rLast.text[k] # 0 => SessionOf(rLast.text[k]) = rLast.sess

\* ---- C39 -----------------------------------------------------------
\* C39 as stated: when two injectText calls with preserveClipboard on have
\* overlapped and both have completed without a clipboard access failing, the
\* clipboard holds what it held before the first call, and neither of the
\* injected texts.
C39_OverlapRestoresOriginal ==
    (/\ inj.pc = "idle"
     /\ inj2.pc = "done"
     /\ inj2.firstPreserve
     /\ inj2.preserve
     /\ ~injLast.clipFault
     /\ ~inj2.ret.clipFault
     /\ inj2.ret.injectCalled
     /\ ~blank(inj2.text)) =>
        /\ clipboard = inj2.before
        /\ inj2.before \notin {inj2.firstText, inj2.text} =>
              clipboard \notin {inj2.firstText, inj2.text}

====
